---- MODULE Spec2Model ----
(***************************************************************************)
(* RoutePilot: the Hours-of-Service (HOS) engine behind the driver         *)
(* dashboard, the fleet dashboard and the trip planner, together with the  *)
(* dashboard code that consumes it.  Time is counted in minutes.           *)
(***************************************************************************)
EXTENDS Integers, Sequences, FiniteSets, TLC

VARIABLES
  logs,           \* HOS engine: driver id -> sequence of HosLogEntry
  res,            \* HOS engine: the last operation and what it returned
  now,            \* the server's clock, in minutes
  ticks,          \* how often the clock has advanced
  hosStatus,      \* DriverDashboard: useState(null), <<>> is null
  currentTrip,    \* DriverDashboard: useState(null)
  loading,        \* DriverDashboard: useState(true)
  actionLoading,  \* DriverDashboard: useState(null)
  message,        \* DriverDashboard: useState(null)
  pc,             \* DriverDashboard: the await its running handler is at
  thrown,         \* DriverDashboard: the call whose apiRequest threw last
  dashboard,      \* FleetDashboard: useState(null), <<>> is null
  fleetLoading,   \* FleetDashboard: loading, useState(true)
  fleetError,     \* FleetDashboard: error, useState(null)
  truckId,        \* TripPlanner: useState('')
  plannerDriverId,\* TripPlanner: driverId, useState('')
  stops,          \* TripPlanner: useState([])
  startLocation,  \* TripPlanner: useState({ lat: '', lon: '' })
  step,           \* TripPlanner: useState(1)
  plannerLoading, \* TripPlanner: loading, useState(false)
  plannerError,   \* TripPlanner: error, useState(null), <<>> is null
  plannedRoute,   \* TripPlanner: useState(null), <<>> is null
  pending,        \* TripPlanner: the request its running handler awaits
  writing,        \* HOS engine: driver id -> the write in flight, <<>> is none
  reading,        \* HOS engine: the getSnapshot in flight, <<>> is none
  tripId,         \* TripRouteSummary: the tripId prop
  summaryStops,   \* TripRouteSummary: the stops prop, <<>> is null
  summaryDisabled,\* TripRouteSummary: the disabled prop
  summaryLoading, \* TripRouteSummary: loading, useState(false)
  routeSummary,   \* TripRouteSummary: useState(null), <<>> is null
  summaryError,   \* TripRouteSummary: error, useState(null)
  hasCalculated,  \* TripRouteSummary: useState(false)
  summaryPending, \* TripRouteSummary: the fetch computeRoute awaits
  nightMode,      \* ThemeProvider: tab -> useState(...), of the mounted tabs
  mounted,        \* ThemeProvider: tab -> the provider is mounted
  saved,          \* localStorage['routepilot-night-mode'], "null" if absent
  systemDark,     \* matchMedia('(prefers-color-scheme: dark)').matches
  toggled,        \* NightModeToggle: the user has clicked it
  alerts,         \* AlertsPanel: useState([])
  alertsLoading,  \* AlertsPanel: loading, useState(true)
  filter,         \* AlertsPanel: useState('all')
  alertsPending,  \* AlertsPanel: a getAlerts of loadAlerts is awaited
  dismissPending, \* AlertsPanel: the alert id handleDismiss awaits, <<>> none
  toastMounted,   \* AlertToast: the toast is mounted
  toastSeverity,  \* AlertToast: alert.severity of the alert prop
  visible,        \* AlertToast: useState(true)
  timer,          \* AlertToast: seconds until the timeout fires, Null if none
  toastAge,       \* AlertToast: seconds since the toast was shown
  sinceProps,     \* AlertToast: seconds since alert or onDismiss last changed
  dismissCalls,   \* AlertToast: who has called onDismiss
  currentView,    \* App: useState('landing')
  activeTab,      \* FleetDashboard: useState('overview')
  panelDriverId,  \* AlertsPanel: the driverId prop, "" is null
  serverAlerts,   \* alert store of the server: the ids not dismissed
  getAlertsCall,  \* the getAlerts request in flight and its answer, <<>> none
  dismissCall,    \* the dismissAlert request in flight, <<>> none
  dismissed       \* AlertsPanel: the ids whose dismissAlert has succeeded

engineVars == <<logs, res>>
clockVars == <<now, ticks>>
driverVars == <<hosStatus, currentTrip, loading, actionLoading, message, pc,
                thrown>>
boardVars == <<dashboard, fleetLoading, fleetError>>
plannerVars == <<truckId, plannerDriverId, stops, startLocation, step,
                 plannerLoading, plannerError, plannedRoute, pending>>
fleetVars == <<boardVars, plannerVars>>
concVars == <<writing, reading>>
summaryVars == <<tripId, summaryStops, summaryDisabled, summaryLoading, routeSummary,
                 summaryError, hasCalculated, summaryPending>>
themeVars == <<nightMode, mounted, saved, systemDark, toggled>>
alertVars == <<alerts, alertsLoading, filter, alertsPending, dismissPending>>
toastVars == <<toastMounted, toastSeverity, visible, timer, toastAge,
               sinceProps, dismissCalls>>
appVars == <<currentView, activeTab>>
serverVars == <<panelDriverId, serverAlerts, getAlertsCall, dismissCall,
                dismissed>>
pageVars == <<toastVars, appVars, serverVars>>
uiVars == <<summaryVars, themeVars, alertVars, pageVars>>
restVars == <<concVars, uiVars>>
vars == <<engineVars, clockVars, driverVars, fleetVars, restVars>>

(***************************************************************************)
(* Bounds of the model.                                                    *)
(***************************************************************************)
MaxLog == 3

Drivers == {"driver-001", "driver-002"}

\* The browser tabs that show the application.
Tabs == {"tab-1", "tab-2", "tab-3"}

\* Gaps, in minutes, between a driver's open entry and the next event: the
\* daily clocks (a gap of -15 is an event that precedes the open entry).
DaySteps == {0 - 15, 0, 30, 8 * 60, 10 * 60}

\* Gaps for the 70-hour cycle: 10 hours, 70 hours, 8 days.
CycleSteps == {10 * 60, 70 * 60, 8 * 24 * 60}

\* Timestamp of the first event of a driver without a log.
FirstTimes == {60}

(***************************************************************************)
(* Data model: DutyStatus, HosLogEntry.                                    *)
(***************************************************************************)
OFF_DUTY == "OFF_DUTY"
SLEEPER_BERTH == "SLEEPER_BERTH"
ON_DUTY_NOT_DRIVING == "ON_DUTY_NOT_DRIVING"
DRIVING == "DRIVING"

DutyStatus == {OFF_DUTY, SLEEPER_BERTH, ON_DUTY_NOT_DRIVING, DRIVING}

\* The end timestamp of the entry that is still active.
Null == 0 - 1

HosLogEntry(status, start, end) == [status |-> status, start |-> start, end |-> end]

IsRest(status) == status \in {OFF_DUTY, SLEEPER_BERTH}
IsOnDuty(status) == status \in {ON_DUTY_NOT_DRIVING, DRIVING}

(***************************************************************************)
(* The regulatory limits, in minutes.                                      *)
(***************************************************************************)
DriveCap == 11 * 60
WindowCap == 14 * 60
CycleCap == 70 * 60
CycleWindow == 8 * 24 * 60
BreakAfter == 8 * 60
BreakLen == 30
RestLen == 10 * 60

Min(a, b) == IF a < b THEN a ELSE b
Max(a, b) == IF a > b THEN a ELSE b

(***************************************************************************)
(* getSnapshot: the derived HosSnapshot, recomputed from the raw log.      *)
(***************************************************************************)
\* Where an entry ends for a reader at asOf: the open entry runs to asOf.
EndAt(e, asOf) == IF e.end = Null THEN asOf ELSE Min(e.end, asOf)

\* Minutes of entry e inside the interval [lo, hi).
Overlap(e, lo, hi) == Max(0, Min(EndAt(e, hi), hi) - Max(e.start, lo))

\* The clocks of a driver without history: an implicit fresh OFF_DUTY start.
Fresh == [drive |-> 0, driveBrk |-> 0, restRun |-> RestLen, ndRun |-> BreakLen,
          winStart |-> Null]

\* One log entry applied to the running clocks.
Accrue(acc, e, asOf) ==
  LET len == Overlap(e, e.start, asOf)
      rest == IF IsRest(e.status) THEN acc.restRun + len ELSE 0
      nd == IF e.status = DRIVING THEN 0 ELSE acc.ndRun + len
      reset == rest >= RestLen
  IN [drive |-> IF reset THEN 0
                ELSE IF e.status = DRIVING THEN acc.drive + len ELSE acc.drive,
      driveBrk |-> IF e.status = DRIVING THEN acc.driveBrk + len
                   ELSE IF nd >= BreakLen THEN 0 ELSE acc.driveBrk,
      restRun |-> rest,
      ndRun |-> nd,
      winStart |-> IF reset THEN Null
                   ELSE IF IsOnDuty(e.status) /\ acc.winStart = Null THEN e.start
                   ELSE acc.winStart]

RECURSIVE Scan(_, _, _, _)
Scan(log, i, acc, asOf) ==
  IF i > Len(log) THEN acc
  ELSE IF log[i].start > asOf THEN Scan(log, i + 1, acc, asOf)
  ELSE Scan(log, i + 1, Accrue(acc, log[i], asOf), asOf)

RECURSIVE OnDutyIn(_, _, _, _)
\* On-duty minutes (ON_DUTY_NOT_DRIVING plus DRIVING) of log[i..] inside [lo, hi).
OnDutyIn(log, i, lo, hi) ==
  IF i > Len(log) THEN 0
  ELSE (IF IsOnDuty(log[i].status) THEN Overlap(log[i], lo, hi) ELSE 0)
       + OnDutyIn(log, i + 1, lo, hi)

\* On-duty minutes of the whole log, with no window.
CycleUsedEver(log, asOf) == OnDutyIn(log, 1, 0, asOf)

CycleUsed(log, asOf) == OnDutyIn(log, 1, asOf - CycleWindow, asOf)

HosSnapshot(log, asOf) ==
  LET acc == Scan(log, 1, Fresh, asOf)
      dhr == Max(0, DriveCap - acc.drive)
      odr == IF acc.winStart = Null THEN WindowCap
             ELSE Max(0, WindowCap - (asOf - acc.winStart))
      chr == CycleCap - CycleUsed(log, asOf)
      brk == acc.driveBrk >= BreakAfter
  IN [drivingHoursRemaining |-> dhr,
      onDutyHoursRemaining |-> odr,
      cycleHoursRemaining |-> chr,
      breakRequired |-> brk,
      canDrive |-> dhr > 0 /\ odr > 0 /\ chr > 0 /\ ~brk]

(***************************************************************************)
(* recordDutyChange                                                        *)
(***************************************************************************)
ActiveStatus(log) == IF log = <<>> THEN OFF_DUTY ELSE log[Len(log)].status

\* The verdict with no look at the order of the timestamps.
VerdictAnyTime(log, newStatus, timestamp) ==
  IF newStatus = ActiveStatus(log) THEN "InvalidTransition"
  ELSE IF newStatus = DRIVING /\ ~HosSnapshot(log, timestamp).canDrive
    THEN "InvalidTransition"
  ELSE "ok"

\* The verdict on a requested transition: "ok" or the error kind.
Verdict(log, newStatus, timestamp) ==
  IF log # <<>> /\ timestamp < log[Len(log)].start THEN "OutOfOrderTimestamp"
  ELSE IF newStatus = ActiveStatus(log) THEN "InvalidTransition"
  ELSE IF newStatus = DRIVING /\ ~HosSnapshot(log, timestamp).canDrive
    THEN "InvalidTransition"
  ELSE "ok"

\* Transition with the open entry left open.
TransitionKeepOpen(log, newStatus, timestamp) ==
  log \o <<HosLogEntry(newStatus, timestamp, Null)>>

\* Close the open entry at timestamp and open the new one.
Transition(log, newStatus, timestamp) ==
  (IF log = <<>> THEN <<>>
   ELSE [log EXCEPT ![Len(log)].end = timestamp])
  \o <<HosLogEntry(newStatus, timestamp, Null)>>

NoResult == [op |-> "none", driver |-> "none", status |-> "none", asOf |-> 0,
             outcome |-> "none", snap |-> HosSnapshot(<<>>, 0), before |-> <<>>]

EventTimes(log, steps) ==
  IF log = <<>> THEN FirstTimes ELSE {log[Len(log)].start + d : d \in steps}

RECURSIVE TotalEntries(_)
TotalEntries(ds) ==
  IF ds = {} THEN 0
  ELSE LET d == CHOOSE x \in ds : TRUE
       IN Len(logs[d]) + TotalEntries(ds \ {d})

recordDutyChange(driverId, newStatus, timestamp) ==
  LET log == logs[driverId]
      v == Verdict(log, newStatus, timestamp)
      after == IF v = "ok" THEN Transition(log, newStatus, timestamp) ELSE log
  IN /\ v = "ok" => TotalEntries(Drivers) < MaxLog
     /\ logs' = [logs EXCEPT ![driverId] = after]
     /\ res' = [op |-> "recordDutyChange", driver |-> driverId,
                status |-> newStatus, asOf |-> timestamp, outcome |-> v,
                snap |-> HosSnapshot(after, timestamp), before |-> log]

\* getSnapshot writing the open entry's end as it reads.
getSnapshotClosing(driverId, asOf) ==
  /\ logs' = [logs EXCEPT ![driverId] =
                IF logs[driverId] = <<>> THEN <<>>
                ELSE [logs[driverId] EXCEPT ![Len(logs[driverId])].end = asOf]]
  /\ res' = [op |-> "getSnapshot", driver |-> driverId, status |-> "none",
             asOf |-> asOf, outcome |-> "ok",
             snap |-> HosSnapshot(logs[driverId], asOf), before |-> logs[driverId]]

getSnapshot(driverId, asOf) ==
  /\ logs' = logs
  /\ res' = [op |-> "getSnapshot", driver |-> driverId, status |-> "none",
             asOf |-> asOf, outcome |-> "ok",
             snap |-> HosSnapshot(logs[driverId], asOf), before |-> logs[driverId]]

NoMessage == [type |-> "null", text |-> "null"]

Init ==
  /\ logs = [d \in Drivers |-> <<>>]
  /\ res = NoResult
  /\ now = 0
  /\ ticks = 0
  /\ hosStatus = <<>>
  /\ currentTrip = "null"
  /\ loading = TRUE
  /\ actionLoading = "null"
  /\ message = NoMessage
  /\ pc = "getDriverHOS"
  /\ thrown = "null"
  /\ dashboard = <<>>
  /\ fleetLoading = TRUE
  /\ fleetError = "null"
  /\ truckId = ""
  /\ plannerDriverId = ""
  /\ stops = <<>>
  /\ startLocation = [lat |-> <<>>, lon |-> <<>>]
  /\ step = 1
  /\ plannerLoading = FALSE
  /\ plannerError = <<>>
  /\ plannedRoute = <<>>
  /\ pending = <<>>
  /\ writing = [d \in Drivers |-> <<>>]
  /\ reading = <<>>
  /\ tripId = ""
  /\ summaryStops = <<>>
  /\ summaryDisabled = FALSE
  /\ summaryLoading = FALSE
  /\ routeSummary = <<>>
  /\ summaryError = "null"
  /\ hasCalculated = FALSE
  /\ summaryPending = <<>>
  /\ nightMode = [tab \in Tabs |-> FALSE]
  /\ mounted = [tab \in Tabs |-> FALSE]
  /\ saved = "null"
  /\ systemDark = FALSE
  /\ toggled = FALSE
  /\ alerts = <<>>
  /\ alertsLoading = TRUE
  /\ filter = "all"
  /\ alertsPending = TRUE
  /\ dismissPending = <<>>
  /\ toastMounted = FALSE
  /\ toastSeverity = "info"
  /\ visible = TRUE
  /\ timer = Null
  /\ toastAge = 0
  /\ sinceProps = 0
  /\ dismissCalls = {}
  /\ currentView = "landing"
  /\ activeTab = "overview"
  /\ panelDriverId = ""
  /\ serverAlerts = [id \in {1, 2, 3} |-> "none"]
  /\ getAlertsCall = <<[request |-> [path |-> "/api/alerts", query |-> <<>>],
                         served |-> FALSE, data |-> <<>>]>>
  /\ dismissCall = <<>>
  /\ dismissed = {}

RecordStep(steps) ==
  /\ \E d \in Drivers, s \in DutyStatus :
       \E t \in EventTimes(logs[d], steps) : recordDutyChange(d, s, t)
  /\ UNCHANGED <<clockVars, driverVars, fleetVars, restVars>>

SnapshotStep(steps) ==
  /\ \E d \in Drivers : \E t \in EventTimes(logs[d], steps) :
       t >= 0 /\ getSnapshot(d, t)
  /\ UNCHANGED <<clockVars, driverVars, fleetVars, restVars>>

DayRecord == RecordStep(DaySteps)
DaySnapshot == SnapshotStep(DaySteps)
Next == DayRecord \/ DaySnapshot

Spec == Init /\ [][Next]_vars

CycleRecord == RecordStep(CycleSteps)
CycleSnapshot == SnapshotStep(CycleSteps)
NextCycle == CycleRecord \/ CycleSnapshot

SpecCycle == Init /\ [][NextCycle]_vars

(***************************************************************************)
(* The server's clock.                                                     *)
(***************************************************************************)
MaxTicks == 2

\* How far the clock moves between two events at the dashboards: 8 hours (a
\* break falls due, a rest too short to reset the clocks) or 10 hours (the
\* rest that resets them).
ClockSteps == {8 * 60, 10 * 60}

Tick ==
  /\ ticks < MaxTicks
  /\ \E d \in ClockSteps : now' = now + d
  /\ ticks' = ticks + 1
  /\ UNCHANGED <<engineVars, driverVars, fleetVars, restVars>>

(***************************************************************************)
(* The HOS endpoints of the API, as the dashboards consume them.           *)
(***************************************************************************)
\* GET /api/drivers/{id}/hos -> { hos, can_drive, default_status }
getDriverHOS(driverId) ==
  LET snap == HosSnapshot(logs[driverId], now)
  IN [hos |-> IF logs[driverId] = <<>> THEN <<>> ELSE <<snap>>,
      can_drive |-> snap.canDrive,
      default_status |-> HosSnapshot(<<>>, now)]

HosActions == {"start_driving", "stop_driving", "start_rest", "end_rest"}

\* The duty status a dashboard action asks for.
ActionStatus(action) ==
  CASE action = "start_driving" -> DRIVING
    [] action = "stop_driving" -> ON_DUTY_NOT_DRIVING
    [] action = "start_rest" -> OFF_DUTY
    [] action = "end_rest" -> ON_DUTY_NOT_DRIVING

\* logHOSAction posting an action of its own choice.
logHOSActionBreak(driver, action) ==
  [method |-> "POST", endpoint |-> <<"/api/drivers/", driver, "/hos/action">>,
   body |-> [action |-> "start_break"]]

\* logHOSAction: POST /api/drivers/{driverId}/hos/action with { action }
logHOSAction(driver, action) ==
  [method |-> "POST", endpoint |-> <<"/api/drivers/", driver, "/hos/action">>,
   body |-> [action |-> action]]

\* A request either completes, is lost before the server saw it, or is
\* answered by a response that never arrives (fetch rejects in both cases).
Transports == {"ok", "request_lost", "response_lost"}

\* apiRequest: what it throws to its caller. A response that is not OK, a
\* rejected fetch and a body that is not JSON all throw; "null" is a return.
apiRequest(endpoint, ok) == IF ok THEN "null" ELSE endpoint

(***************************************************************************)
(* DriverDashboard                                                         *)
(***************************************************************************)
driverId == "driver-001"

QuickActions == {"arrived", "start_break", "running_late", "need_fuel"}

\* const hosData = hosStatus?.hos || hosStatus?.default_status
hosData ==
  IF hosStatus = <<>> THEN <<>>
  ELSE IF hosStatus[1].hos # <<>> THEN hosStatus[1].hos
  ELSE <<hosStatus[1].default_status>>

\* canDrive with || in place of ??: a false can_drive reads as true.
canDriveOrTrue == TRUE

\* const canDrive = hosStatus?.can_drive ?? true
canDrive == IF hosStatus = <<>> THEN TRUE ELSE hosStatus[1].can_drive

\* x.toFixed(1) of a number of hours carried in minutes, in tenths of an hour
\* (of two equally near decimals toFixed takes the larger).
toFixed1(minutes) == (minutes + 3) \div 6

\* The drive-hours default taken from the on-duty card.
DriveHoursLeftOtherDefault(data) ==
  IF data = <<>> THEN 140 ELSE toFixed1(data[1].drivingHoursRemaining)

\* {hosData?.driving_hours_remaining?.toFixed(1) || '11.0'}
DriveHoursLeft(data) ==
  IF data = <<>> THEN 110 ELSE toFixed1(data[1].drivingHoursRemaining)

\* {hosData?.on_duty_hours_remaining?.toFixed(1) || '14.0'}
OnDutyLeft(data) ==
  IF data = <<>> THEN 140 ELSE toFixed1(data[1].onDutyHoursRemaining)

\* {hosData?.cycle_hours_remaining?.toFixed(1) || '70.0'}
CycleLeft(data) ==
  IF data = <<>> THEN 700 ELSE toFixed1(data[1].cycleHoursRemaining)

\* {canDrive ? 'Ready' : 'Break Needed'}
StatusShown(ready) == IF ready THEN "Ready" ELSE "Break Needed"

\* The 30-minute break warning is rendered.
BreakWarningShown == hosData # <<>> /\ hosData[1].breakRequired

\* The buttons with no disabled attribute.
ButtonNeverDisabled == FALSE

\* disabled={actionLoading} of the quick-action and the other duty buttons
ButtonDisabled == actionLoading # "null"

\* The Start Driving button disabled like the other duty buttons.
StartDrivingDisabledLikeOthers == actionLoading # "null"

\* disabled={actionLoading || !canDrive} of the Start Driving button
StartDrivingDisabled == actionLoading # "null" \/ ~canDrive

\* Every duty button disabled like the Start Driving button.
HosButtonDisabledLikeStart(action) == StartDrivingDisabled

\* disabled=... of the four Duty Status buttons
HosButtonDisabled(action) ==
  IF action = "start_driving" THEN StartDrivingDisabled ELSE ButtonDisabled

\* loadDriverData up to the answer of getDriverHOS
LoadDriverHOS ==
  /\ pc = "getDriverHOS"
  /\ \E ok \in BOOLEAN :
       IF ok
       THEN /\ hosStatus' = <<getDriverHOS(driverId)>>
            /\ pc' = "listTrips"
            /\ thrown' = apiRequest("getDriverHOS", TRUE)
            /\ UNCHANGED loading
       ELSE /\ loading' = FALSE
            /\ pc' = "idle"
            /\ thrown' = apiRequest("getDriverHOS", FALSE)
            /\ UNCHANGED hosStatus
  /\ UNCHANGED <<currentTrip, actionLoading, message>>
  /\ UNCHANGED <<engineVars, clockVars, fleetVars, restVars>>

\* loadDriverData from the answer of listTrips to its end
LoadDriverTrips ==
  /\ pc = "listTrips"
  /\ \E trips \in {"failed", "none", "trip-1"} :
       /\ currentTrip' = IF trips = "trip-1" THEN "trip-1" ELSE currentTrip
       /\ thrown' = apiRequest("listTrips", trips # "failed")
  /\ loading' = FALSE
  /\ pc' = "idle"
  /\ UNCHANGED <<hosStatus, actionLoading, message>>
  /\ UNCHANGED <<engineVars, clockVars, fleetVars, restVars>>

\* handleQuickAction up to its first await
QuickActionClick ==
  /\ ~loading
  /\ ~ButtonDisabled
  /\ \E action \in QuickActions : actionLoading' = action
  /\ message' = NoMessage
  /\ pc' = "driverQuickAction"
  /\ thrown' = "null"
  /\ UNCHANGED <<hosStatus, currentTrip, loading>>
  /\ UNCHANGED <<engineVars, clockVars, fleetVars, restVars>>

\* handleQuickAction from the answer of driverQuickAction
QuickActionAnswer ==
  /\ pc = "driverQuickAction"
  /\ \E ok \in BOOLEAN :
       /\ thrown' = apiRequest("driverQuickAction", ok)
       /\ IF ok
          THEN /\ message' = [type |-> "success", text |-> "result.message"]
               /\ IF actionLoading \in {"start_break", "arrived"}
                  THEN pc' = "quickGetDriverHOS" /\ UNCHANGED actionLoading
                  ELSE pc' = "idle" /\ actionLoading' = "null"
          ELSE /\ message' = [type |-> "error", text |-> "error.message"]
               /\ actionLoading' = "null"
               /\ pc' = "idle"
  /\ UNCHANGED <<hosStatus, currentTrip, loading>>
  /\ UNCHANGED <<engineVars, clockVars, fleetVars, restVars>>

\* handleQuickAction from the answer of its getDriverHOS to its end
QuickActionRefresh ==
  /\ pc = "quickGetDriverHOS"
  /\ \E ok \in BOOLEAN :
       /\ thrown' = apiRequest("getDriverHOS", ok)
       /\ IF ok
          THEN /\ hosStatus' = <<getDriverHOS(driverId)>>
               /\ UNCHANGED message
          ELSE /\ message' = [type |-> "error", text |-> "error.message"]
               /\ UNCHANGED hosStatus
  /\ actionLoading' = "null"
  /\ pc' = "idle"
  /\ UNCHANGED <<currentTrip, loading>>
  /\ UNCHANGED <<engineVars, clockVars, fleetVars, restVars>>

\* handleHOSAction up to its first await
HOSActionClick ==
  /\ ~loading
  /\ \E action \in HosActions :
       /\ ~HosButtonDisabled(action)
       /\ actionLoading' = action
  /\ message' = NoMessage
  /\ pc' = "logHOSAction"
  /\ thrown' = "null"
  /\ UNCHANGED <<hosStatus, currentTrip, loading>>
  /\ UNCHANGED <<engineVars, clockVars, fleetVars, restVars>>

\* handleHOSAction from the answer of logHOSAction
HOSActionAnswer ==
  /\ pc = "logHOSAction"
  /\ \E transport \in Transports :
       /\ IF transport = "request_lost"
          THEN UNCHANGED engineVars
          ELSE recordDutyChange(driverId, ActionStatus(actionLoading), now)
       /\ thrown' = apiRequest("logHOSAction",
                               transport = "ok" /\ res'.outcome = "ok")
       /\ IF transport = "ok" /\ res'.outcome = "ok"
          THEN /\ pc' = "hosGetDriverHOS"
               /\ UNCHANGED <<message, actionLoading>>
          ELSE /\ message' = [type |-> "error",
                              text |-> IF transport = "ok" THEN res'.outcome
                                       ELSE "Failed to fetch"]
               /\ actionLoading' = "null"
               /\ pc' = "idle"
  /\ UNCHANGED <<hosStatus, currentTrip, loading>>
  /\ UNCHANGED <<clockVars, fleetVars, restVars>>

\* handleHOSAction from the answer of its getDriverHOS to its end
HOSActionRefresh ==
  /\ pc = "hosGetDriverHOS"
  /\ \E ok \in BOOLEAN :
       /\ thrown' = apiRequest("getDriverHOS", ok)
       /\ IF ok
          THEN /\ hosStatus' = <<getDriverHOS(driverId)>>
               /\ message' = [type |-> "success", text |-> "recorded"]
          ELSE /\ message' = [type |-> "error", text |-> "Failed to fetch"]
               /\ UNCHANGED hosStatus
  /\ actionLoading' = "null"
  /\ pc' = "idle"
  /\ UNCHANGED <<currentTrip, loading>>
  /\ UNCHANGED <<engineVars, clockVars, fleetVars, restVars>>

NextDriver ==
  \/ Tick
  \/ LoadDriverHOS
  \/ LoadDriverTrips
  \/ QuickActionClick
  \/ QuickActionAnswer
  \/ QuickActionRefresh
  \/ HOSActionClick
  \/ HOSActionAnswer
  \/ HOSActionRefresh

SpecDriver == Init /\ [][NextDriver]_vars

(***************************************************************************)
(* FleetDashboard                                                          *)
(***************************************************************************)
\* GET /api/fleet/dashboard: one driver_status row per tracked driver.
getFleetDashboard ==
  [driver_status |->
     [d \in Drivers |->
        LET snap == HosSnapshot(logs[d], now)
        IN [driver_id |-> d,
            status |-> ActiveStatus(logs[d]),
            can_drive |-> snap.canDrive,
            driving_hours_remaining |-> snap.drivingHoursRemaining]]]

\* The bar scaled by 10 hours instead of 11.
HosBarWidthOfTen(driver) == (driver.driving_hours_remaining * 100) \div (10 * 60)

\* width: `${(driver.driving_hours_remaining / 11) * 100}%`, in whole percent;
\* driving_hours_remaining is carried in minutes, so 11 hours are 11 * 60.
HosBarWidth(driver) == (driver.driving_hours_remaining * 100) \div (11 * 60)

\* loadDashboardData, on mount and every 30 seconds
loadDashboardData ==
  /\ \E ok \in BOOLEAN :
       IF ok
       THEN /\ dashboard' = <<getFleetDashboard>>
            /\ fleetError' = "null"
       ELSE /\ fleetError' = "Failed to connect to server. Is the backend running?"
            /\ UNCHANGED dashboard
  /\ fleetLoading' = FALSE
  /\ UNCHANGED <<engineVars, clockVars, driverVars, plannerVars, restVars>>

\* The duty changes the drivers of the fleet report: driving and resting.
FleetStatuses == {DRIVING, OFF_DUTY}

\* A driver's duty change reaching the engine at the server's time.
DutyChange ==
  /\ \E d \in Drivers, s \in FleetStatuses : recordDutyChange(d, s, now)
  /\ UNCHANGED <<clockVars, driverVars, fleetVars, restVars>>

NextFleet == Tick \/ DutyChange \/ loadDashboardData

SpecFleet == Init /\ [][NextFleet]_vars

(***************************************************************************)
(* projectTrip                                                             *)
(***************************************************************************)
MaxLegs == 2

\* Estimated driving minutes of a leg: an hour and a half, four hours.
LegDrives == {90, 4 * 60}


\* Gaps before a planned trip: a 30-minute break, two hours, eight hours.
TripSteps == {30, 2 * 60, 8 * 60}

\* A leg: its estimated driving minutes and the service (on-duty, not
\* driving) minutes at its destination stop.
ItineraryLeg == {[drive |-> 90, service |-> 30], [drive |-> 4 * 60, service |-> 0]}

Itineraries == UNION {[1..n -> ItineraryLeg] : n \in 1..MaxLegs}

REQUIRED_30MIN == "REQUIRED_30MIN"
REST_10HR == "REST_10HR"

\* position: the stop boundary of the break, counted in legs already driven
\* (0 is the start of the trip).
PlannedBreak(type, position) ==
  [break_type |-> type,
   duration_minutes |-> IF type = REST_10HR THEN RestLen ELSE BreakLen,
   position |-> position]

\* UnknownDriver: no log yet is an implicit fresh OFF_DUTY start.
LogOf(driver) == IF driver \in Drivers THEN logs[driver] ELSE <<>>

\* The simulated timeline with status active from t on.
Continue(log, status, t) ==
  IF ActiveStatus(log) = status THEN log ELSE Transition(log, status, t)

\* Driving for drive minutes from t on exceeds none of the budgets.
WithinBudgets(log, t, drive) ==
  LET sim == Continue(log, DRIVING, t)
      acc == Scan(sim, 1, Fresh, t + drive)
  IN /\ acc.drive <= DriveCap
     /\ acc.driveBrk <= BreakAfter
     /\ (t + drive) - acc.winStart <= WindowCap
     /\ CycleUsed(sim, t + drive) <= CycleCap

\* The break of 30 minutes whichever budget the leg runs into.
BreakBeforeHalfHour(log, t, drive) ==
  IF WithinBudgets(log, t, drive) THEN "none" ELSE REQUIRED_30MIN

\* The shortest break at the boundary t that restores eligibility for the leg.
BreakBefore(log, t, drive) ==
  IF WithinBudgets(log, t, drive) THEN "none"
  ELSE IF WithinBudgets(Continue(log, OFF_DUTY, t), t + BreakLen, drive)
    THEN REQUIRED_30MIN
  ELSE REST_10HR

NoProjection ==
  [breaks |-> <<>>, required_breaks |-> 0, can_complete_without_rest |-> TRUE,
   hours_remaining_at_end |-> 0, timeline |-> <<>>, completes_at |-> 0]

RECURSIVE Simulate(_, _, _, _, _)
\* Leg by leg from the boundary t, i - 1 legs driven so far.
Simulate(log, legs, i, t, proj) ==
  IF i > Len(legs)
  THEN [proj EXCEPT
          !.hours_remaining_at_end = HosSnapshot(log, t).drivingHoursRemaining,
          !.timeline = log,
          !.completes_at = t]
  ELSE LET brk == BreakBefore(log, t, legs[i].drive)
           pause == IF brk = "none" THEN 0
                    ELSE PlannedBreak(brk, i - 1).duration_minutes
           rested == IF brk = "none" THEN log ELSE Continue(log, OFF_DUTY, t)
           driving == Continue(rested, DRIVING, t + pause)
           arrive == t + pause + legs[i].drive
           served == IF legs[i].service > 0
                     THEN Continue(driving, ON_DUTY_NOT_DRIVING, arrive)
                     ELSE driving
       IN Simulate(served, legs, i + 1, arrive + legs[i].service,
            IF brk = "none" THEN proj
            ELSE [proj EXCEPT
                    !.breaks = Append(@, PlannedBreak(brk, i - 1)),
                    !.required_breaks = @ + 1,
                    !.can_complete_without_rest = @ /\ brk # REST_10HR])

\* TripHosProjection of the itinerary for the driver as of asOf.
TripHosProjection(log, itineraryLegs, asOf) ==
  Simulate(log, itineraryLegs, 1, asOf, NoProjection)

\* projectTrip keeping the simulated timeline as the driver's log.
projectTripCommitting(driver, itineraryLegs, asOf) ==
  LET proj == TripHosProjection(logs[driver], itineraryLegs, asOf)
  IN /\ logs' = [logs EXCEPT ![driver] = proj.timeline]
     /\ res' = [op |-> "projectTrip", driver |-> driver, status |-> "none",
                asOf |-> asOf, outcome |-> "ok",
                snap |-> HosSnapshot(logs[driver], asOf),
                before |-> logs[driver], legs |-> itineraryLegs,
                proj |-> proj]

projectTrip(driver, itineraryLegs, asOf) ==
  LET proj == TripHosProjection(logs[driver], itineraryLegs, asOf)
  IN /\ logs' = logs
     /\ res' = [op |-> "projectTrip", driver |-> driver, status |-> "none",
                asOf |-> asOf, outcome |-> "ok",
                snap |-> HosSnapshot(logs[driver], asOf),
                before |-> logs[driver], legs |-> itineraryLegs,
                proj |-> proj]

\* The duty changes of the driver who has a history when trips are projected.
TripRecord ==
  /\ \E s \in FleetStatuses :
       \E t \in EventTimes(logs[driverId], TripSteps) :
         recordDutyChange(driverId, s, t)
  /\ UNCHANGED <<clockVars, driverVars, fleetVars, restVars>>

TripProject ==
  /\ \E d \in Drivers, legs \in Itineraries :
       \E t \in EventTimes(logs[d], TripSteps) : projectTrip(d, legs, t)
  /\ UNCHANGED <<clockVars, driverVars, fleetVars, restVars>>

TripSnapshot == SnapshotStep(TripSteps)

NextTrip == TripRecord \/ TripProject \/ TripSnapshot

SpecTrip == Init /\ [][NextTrip]_vars

(***************************************************************************)
(* TripPlanner                                                             *)
(*                                                                         *)
(* What is typed into a number input is the sequence of its digits, <<>>   *)
(* being the empty input.  Of a stop the planner's fields that decide the  *)
(* request are kept: its place and its service time.                       *)
(***************************************************************************)
MaxStops == 1

TruckIds == {"", "TRUCK-001"}
PlannerDriverIds == {"", "driver-001"}
CoordInputs == {<<>>, <<4, 1>>}
ServiceInputs == {<<4, 5>>}

\* Gaps between a driver's open entry and the planning of a trip.
PlannerSteps == {8 * 60, 10 * 60}

NaN == Null

RECURSIVE parseInt(_)
\* parseInt of a digit sequence: NaN for the empty input.
parseInt(digits) ==
  IF digits = <<>> THEN NaN
  ELSE IF Len(digits) = 1 THEN digits[1]
  ELSE 10 * parseInt(SubSeq(digits, 1, Len(digits) - 1)) + digits[Len(digits)]

\* parseFloat, on the whole numbers typed here
parseFloat(digits) == parseInt(digits)

\* addStop
addStop ==
  /\ stops' = Append(stops,
       [stop_sequence |-> Len(stops) + 1,
        address |-> "", city |-> "", state |-> "", zip |-> "",
        latitude |-> <<>>, longitude |-> <<>>,
        service_duration_minutes |-> <<3, 0>>])
  /\ UNCHANGED <<truckId, plannerDriverId, startLocation, step,
                 plannerLoading, plannerError, plannedRoute, pending>>

\* updateStop(index, field, value)
updateStop(index, field, value) ==
  /\ stops' = [stops EXCEPT ![index] = [@ EXCEPT ![field] = value]]
  /\ UNCHANGED <<truckId, plannerDriverId, startLocation, step,
                 plannerLoading, plannerError, plannedRoute, pending>>

\* removeStop(index): the stops left are numbered anew
removeStop(index) ==
  /\ stops' = [i \in 1..(Len(stops) - 1) |->
                 [(IF i < index THEN stops[i] ELSE stops[i + 1])
                    EXCEPT !.stop_sequence = i]]
  /\ UNCHANGED <<truckId, plannerDriverId, startLocation, step,
                 plannerLoading, plannerError, plannedRoute, pending>>

\* setStartLocation(prev => ({ ...prev, [field]: e.target.value }))
setStartLocation(field, value) ==
  /\ startLocation' = [startLocation EXCEPT ![field] = value]
  /\ UNCHANGED <<truckId, plannerDriverId, stops, step,
                 plannerLoading, plannerError, plannedRoute, pending>>

setTruckId(value) ==
  /\ truckId' = value
  /\ UNCHANGED <<plannerDriverId, stops, startLocation, step,
                 plannerLoading, plannerError, plannedRoute, pending>>

setDriverId(value) ==
  /\ plannerDriverId' = value
  /\ UNCHANGED <<truckId, stops, startLocation, step,
                 plannerLoading, plannerError, plannedRoute, pending>>

\* the close button of the error display: setError(null)
closeError ==
  /\ plannerError # <<>>
  /\ plannerError' = <<>>
  /\ UNCHANGED <<truckId, plannerDriverId, stops, startLocation, step,
                 plannerLoading, plannedRoute, pending>>

\* handleRegisterTruck, up to its await
handleRegisterTruck ==
  /\ IF truckId = ""
     THEN /\ plannerError' = <<"Please enter a Truck ID">>
          /\ UNCHANGED <<plannerLoading, pending>>
     ELSE /\ plannerLoading' = TRUE
          /\ plannerError' = <<>>
          /\ pending' = <<[api |-> "registerTruck", truck_id |-> truckId]>>
  /\ UNCHANGED <<truckId, plannerDriverId, stops, startLocation, step,
                 plannedRoute>>

\* handleRegisterTruck, from the answer of api.registerTruck on
RegisterTruckAnswer ==
  /\ pending # <<>>
  /\ pending[1].api = "registerTruck"
  /\ \E ok \in BOOLEAN :
       IF ok
       THEN step' = 2 /\ UNCHANGED plannerError
       ELSE plannerError' = <<"API request failed">> /\ UNCHANGED step
  /\ plannerLoading' = FALSE
  /\ pending' = <<>>
  /\ UNCHANGED <<truckId, plannerDriverId, stops, startLocation, plannedRoute>>

\* const hasCoords = stop.latitude && stop.longitude
hasCoords(stop) == stop.latitude # <<>> /\ stop.longitude # <<>>

\* hasAddress without the zip.
hasAddressWithoutZip(stop) ==
  stop.address # "" /\ stop.city # "" /\ stop.state # ""

\* const hasAddress = stop.address && stop.city && stop.state && stop.zip
hasAddress(stop) ==
  stop.address # "" /\ stop.city # "" /\ stop.state # "" /\ stop.zip # ""

\* The first stop that the validation loop rejects, 0 if there is none.
FirstStopWithoutPlace ==
  IF \E i \in 1..Len(stops) : ~hasCoords(stops[i]) /\ ~hasAddress(stops[i])
  THEN CHOOSE i \in 1..Len(stops) :
         /\ ~hasCoords(stops[i]) /\ ~hasAddress(stops[i])
         /\ \A j \in 1..(i - 1) : hasCoords(stops[j]) \/ hasAddress(stops[j])
  ELSE 0

\* service_duration_minutes: parseInt(stop.service_duration_minutes) || 30
ServiceDuration(stop) ==
  LET minutes == parseInt(stop.service_duration_minutes)
  IN IF minutes = NaN \/ minutes = 0 THEN 30 ELSE minutes

\* const formattedStops = stops.map(stop => ({ ... }))
formattedStops ==
  [i \in 1..Len(stops) |->
     [stop_sequence |-> stops[i].stop_sequence,
      address |-> IF stops[i].address = "" THEN "null" ELSE stops[i].address,
      city |-> IF stops[i].city = "" THEN "null" ELSE stops[i].city,
      state |-> IF stops[i].state = "" THEN "null" ELSE stops[i].state,
      zip |-> IF stops[i].zip = "" THEN "null" ELSE stops[i].zip,
      latitude |-> IF stops[i].latitude # <<>>
                   THEN parseFloat(stops[i].latitude) ELSE Null,
      longitude |-> IF stops[i].longitude # <<>>
                    THEN parseFloat(stops[i].longitude) ELSE Null,
      service_duration_minutes |-> ServiceDuration(stops[i])]]

\* handlePlanTrip, up to its await
handlePlanTrip ==
  /\ IF startLocation.lat = <<>> \/ startLocation.lon = <<>>
     THEN /\ plannerError' = <<"Please enter start location coordinates">>
          /\ UNCHANGED <<plannerLoading, pending>>
     ELSE IF Len(stops) = 0
     THEN /\ plannerError' = <<"Please add at least one stop">>
          /\ UNCHANGED <<plannerLoading, pending>>
     ELSE IF FirstStopWithoutPlace # 0
     THEN /\ plannerError' = <<"Stop ", stops[FirstStopWithoutPlace].stop_sequence,
                               " needs either coordinates or full address">>
          /\ UNCHANGED <<plannerLoading, pending>>
     ELSE /\ plannerLoading' = TRUE
          /\ plannerError' = <<>>
          /\ pending' =
               <<[api |-> "planTrip",
                  stops |-> formattedStops,
                  truck_id |-> IF truckId = "" THEN "default-truck" ELSE truckId,
                  driver_id |-> IF plannerDriverId = "" THEN "default-driver"
                                ELSE plannerDriverId,
                  start_latitude |-> parseFloat(startLocation.lat),
                  start_longitude |-> parseFloat(startLocation.lon)]>>
  /\ UNCHANGED <<truckId, plannerDriverId, stops, startLocation, step,
                 plannedRoute>>

\* The answer to POST /api/trips/plan: the itinerary's legs run from stop to
\* stop, their driving minutes are the router's estimates, their service
\* minutes the stops'; hos and breaks are the driver's TripHosProjection.
planTrip(tripData, drives, asOf) ==
  LET legs == [i \in 1..Len(tripData.stops) |->
                 [drive |-> drives[i],
                  service |-> tripData.stops[i].service_duration_minutes]]
      proj == TripHosProjection(LogOf(tripData.driver_id), legs, asOf)
  IN [hos |-> [required_breaks |-> proj.required_breaks,
               can_complete_without_rest |-> proj.can_complete_without_rest,
               hours_remaining_at_end |-> proj.hours_remaining_at_end],
      breaks |-> [i \in 1..Len(proj.breaks) |->
                    [break_type |-> proj.breaks[i].break_type,
                     location_name |-> <<"stop", proj.breaks[i].position>>,
                     duration_minutes |-> proj.breaks[i].duration_minutes]]]

\* handlePlanTrip, from the answer of api.planTrip on
PlanTripAnswer ==
  /\ pending # <<>>
  /\ pending[1].api = "planTrip"
  /\ \E ok \in BOOLEAN :
       IF ok
       THEN /\ \E drives \in [1..Len(pending[1].stops) -> LegDrives] :
                 \E asOf \in EventTimes(LogOf(pending[1].driver_id), PlannerSteps) :
                   plannedRoute' = <<planTrip(pending[1], drives, asOf)>>
            /\ step' = 3
            /\ UNCHANGED plannerError
       ELSE /\ plannerError' = <<"API request failed">>
            /\ UNCHANGED <<plannedRoute, step>>
  /\ plannerLoading' = FALSE
  /\ pending' = <<>>
  /\ UNCHANGED <<truckId, plannerDriverId, stops, startLocation>>

\* <strong>Required Breaks:</strong> {plannedRoute.hos?.required_breaks || 0}
RequiredBreaks == plannedRoute[1].hos.required_breaks

\* Yes whenever the count of breaks is zero.
CanCompleteWithoutRestByCount ==
  IF plannedRoute[1].hos.required_breaks = 0 THEN "Yes" ELSE "No"

\* {plannedRoute.hos?.can_complete_without_rest ? 'Yes' : 'No'}
CanCompleteWithoutRest ==
  IF plannedRoute[1].hos.can_complete_without_rest THEN "Yes" ELSE "No"

\* {plannedRoute.breaks?.length > 0 && ( ... plannedRoute.breaks.map ... )}:
\* the break types of the Planned Breaks list, none when the list is absent.
PlannedBreaks ==
  IF Len(plannedRoute[1].breaks) > 0
  THEN [i \in 1..Len(plannedRoute[1].breaks) |-> plannedRoute[1].breaks[i].break_type]
  ELSE <<>>

\* The dispatcher at the planner, going through its steps once: each input
\* that is shown.  The form is left alone while a request is awaited.
PlannerInput ==
  /\ ~plannerLoading
  /\ \/ /\ step = 1
        /\ \/ \E value \in TruckIds : setTruckId(value)
           \/ \E value \in PlannerDriverIds : setDriverId(value)
     \/ /\ step = 2
        /\ \/ \E field \in {"lat", "lon"}, value \in CoordInputs :
                setStartLocation(field, value)
           \/ Len(stops) < MaxStops /\ addStop
           \/ \E index \in 1..Len(stops) : removeStop(index)
           \/ \E index \in 1..Len(stops) :
                \/ \E field \in {"latitude", "longitude"}, value \in CoordInputs :
                     updateStop(index, field, value)
                \/ \E value \in ServiceInputs :
                     updateStop(index, "service_duration_minutes", value)
     \/ closeError
  /\ UNCHANGED <<engineVars, clockVars, driverVars, boardVars, restVars>>

PlannerButton ==
  /\ ~plannerLoading
  /\ \/ step = 1 /\ handleRegisterTruck
     \/ step = 2 /\ Len(stops) # 0 /\ handlePlanTrip
  /\ UNCHANGED <<engineVars, clockVars, driverVars, boardVars, restVars>>

PlannerAnswer ==
  /\ RegisterTruckAnswer \/ PlanTripAnswer
  /\ UNCHANGED <<engineVars, clockVars, driverVars, boardVars, restVars>>

\* The duty changes of the planner's driver.
PlannerRecord ==
  /\ \E s \in FleetStatuses :
       \E t \in EventTimes(logs[driverId], PlannerSteps) :
         recordDutyChange(driverId, s, t)
  /\ UNCHANGED <<clockVars, driverVars, fleetVars, restVars>>

NextPlanner == PlannerInput \/ PlannerButton \/ PlannerAnswer \/ PlannerRecord

SpecPlanner == Init /\ [][NextPlanner]_vars

(***************************************************************************)
(* TripPlanner, step 2: where the stops are.                               *)
(***************************************************************************)
AddressInputs == {"", "1 Main St"}
CityInputs == {"", "Dallas"}
StateInputs == {"", "tx"}
ZipInputs == {"", "75201"}

\* e.target.value.toUpperCase() of the State input
toUpperCase(value) == IF value = "tx" THEN "TX" ELSE value

\* The dispatcher registering the truck, which leads to step 2.
TruckInput ==
  /\ ~plannerLoading
  /\ step = 1
  /\ truckId = ""
  /\ setTruckId("TRUCK-001")
  /\ UNCHANGED <<engineVars, clockVars, driverVars, boardVars, restVars>>

\* The dispatcher at step 2, saying where the trip starts and where each
\* stop is, by coordinates, by address, by both or by parts of them.
StopsInput ==
  /\ ~plannerLoading
  /\ step = 2
  /\ \/ \E field \in {"lat", "lon"}, value \in CoordInputs :
          setStartLocation(field, value)
     \/ Len(stops) < MaxStops /\ addStop
     \/ \E index \in 1..Len(stops) :
          \/ \E field \in {"latitude", "longitude"}, value \in CoordInputs :
               updateStop(index, field, value)
          \/ \E value \in AddressInputs : updateStop(index, "address", value)
          \/ \E value \in CityInputs : updateStop(index, "city", value)
          \/ \E value \in StateInputs :
               updateStop(index, "state", toUpperCase(value))
          \/ \E value \in ZipInputs : updateStop(index, "zip", value)
  /\ UNCHANGED <<engineVars, clockVars, driverVars, boardVars, restVars>>

NextStops == TruckInput \/ StopsInput \/ PlannerButton \/ PlannerAnswer

SpecStops == Init /\ [][NextStops]_vars

(***************************************************************************)
(* TripPlanner, step 2: the service times of the stops.                    *)
(***************************************************************************)
\* What is typed into Service Time (min): nothing, 0, 45, 600.  The input has
\* type="number" and neither min nor max.
ServiceTimeInputs == {<<>>, <<0>>, <<4, 5>>, <<6, 0, 0>>}

\* The dispatcher at step 2, giving the start and every stop by coordinates
\* and typing service times.
ServiceInput ==
  /\ ~plannerLoading
  /\ step = 2
  /\ \/ \E field \in {"lat", "lon"} :
          startLocation[field] = <<>> /\ setStartLocation(field, <<4, 1>>)
     \/ Len(stops) < MaxStops /\ addStop
     \/ \E index \in 1..Len(stops) :
          \/ \E field \in {"latitude", "longitude"} :
               stops[index][field] = <<>> /\ updateStop(index, field, <<4, 1>>)
          \/ \E value \in ServiceTimeInputs :
               updateStop(index, "service_duration_minutes", value)
  /\ UNCHANGED <<engineVars, clockVars, driverVars, boardVars, restVars>>

NextService == TruckInput \/ ServiceInput \/ PlannerButton \/ PlannerAnswer

SpecService == Init /\ [][NextService]_vars

(***************************************************************************)
(* recordDutyChange and getSnapshot running concurrently                   *)
(*                                                                         *)
(* A write reads the tail of the driver's log, closes the open entry and   *)
(* opens the new one in a copy of its own, and applies the copy to the     *)
(* log in one step.  The writes of one driver are serialized; those of     *)
(* different drivers interleave freely.                                    *)
(***************************************************************************)
\* Gaps between a driver's open entry and the next event: half an hour, ten
\* hours.
ConcurrentSteps == {30, 10 * 60}

\* The open entry closed at timestamp, the new one not yet opened.
CloseOpenEntry(log, timestamp) ==
  IF log = <<>> THEN <<>> ELSE [log EXCEPT ![Len(log)].end = timestamp]

\* The log as a reader sees it while the driver's write is between its two
\* halves: the writer's copy.
VisibleHalfWritten(driver) ==
  IF writing[driver] # <<>> THEN writing[driver][1].staged ELSE logs[driver]

\* The log as a reader sees it: what has been applied.
Visible(driver) == logs[driver]

\* recordDutyChange up to the closing of the open entry
WriteBegin ==
  /\ \E d \in Drivers, s \in FleetStatuses :
       \E t \in EventTimes(logs[d], ConcurrentSteps) :
         LET v == Verdict(logs[d], s, t)
         IN /\ writing[d] = <<>>
            /\ IF v = "ok"
               THEN /\ TotalEntries(Drivers) < MaxLog
                    /\ writing' = [writing EXCEPT ![d] =
                         <<[status |-> s, timestamp |-> t, before |-> logs[d],
                            staged |-> CloseOpenEntry(logs[d], t),
                            opened |-> FALSE]>>]
                    /\ UNCHANGED res
               ELSE /\ res' = [op |-> "recordDutyChange", driver |-> d,
                               status |-> s, asOf |-> t, outcome |-> v,
                               snap |-> HosSnapshot(logs[d], t),
                               before |-> logs[d]]
                    /\ UNCHANGED writing
  /\ UNCHANGED <<logs, reading>>
  /\ UNCHANGED <<clockVars, driverVars, fleetVars, uiVars>>

\* recordDutyChange: the new entry opened in the writer's copy
WriteOpen ==
  /\ \E d \in Drivers :
       /\ writing[d] # <<>>
       /\ ~writing[d][1].opened
       /\ writing' = [writing EXCEPT ![d] =
            <<[writing[d][1] EXCEPT
                 !.staged = @ \o <<HosLogEntry(writing[d][1].status,
                                               writing[d][1].timestamp, Null)>>,
                 !.opened = TRUE]>>]
  /\ UNCHANGED <<logs, res, reading>>
  /\ UNCHANGED <<clockVars, driverVars, fleetVars, uiVars>>

\* recordDutyChange: the copy applied to the log in one step, and the result
WriteApply ==
  /\ \E d \in Drivers :
       /\ writing[d] # <<>>
       /\ writing[d][1].opened
       /\ logs' = [logs EXCEPT ![d] = writing[d][1].staged]
       /\ res' = [op |-> "recordDutyChange", driver |-> d,
                  status |-> writing[d][1].status,
                  asOf |-> writing[d][1].timestamp, outcome |-> "ok",
                  snap |-> HosSnapshot(writing[d][1].staged,
                                       writing[d][1].timestamp),
                  before |-> writing[d][1].before]
       /\ writing' = [writing EXCEPT ![d] = <<>>]
  /\ UNCHANGED reading
  /\ UNCHANGED <<clockVars, driverVars, fleetVars, uiVars>>

\* getSnapshot: the driver's log read
SnapshotRead ==
  /\ reading = <<>>
  /\ \E d \in Drivers : \E t \in EventTimes(logs[d], ConcurrentSteps) :
       reading' = <<[driver |-> d, asOf |-> t, seen |-> Visible(d),
                     during |-> writing[d]]>>
  /\ UNCHANGED <<logs, res, writing>>
  /\ UNCHANGED <<clockVars, driverVars, fleetVars, uiVars>>

\* getSnapshot: the snapshot computed from what was read, and returned
SnapshotReturn ==
  /\ reading # <<>>
  /\ res' = [op |-> "getSnapshot", driver |-> reading[1].driver,
             status |-> "none", asOf |-> reading[1].asOf, outcome |-> "ok",
             snap |-> HosSnapshot(reading[1].seen, reading[1].asOf),
             before |-> reading[1].seen]
  /\ reading' = <<>>
  /\ UNCHANGED <<logs, writing>>
  /\ UNCHANGED <<clockVars, driverVars, fleetVars, uiVars>>

NextConcurrent ==
  WriteBegin \/ WriteOpen \/ WriteApply \/ SnapshotRead \/ SnapshotReturn

SpecConcurrent == Init /\ [][NextConcurrent]_vars

(***************************************************************************)
(* TripRouteSummary                                                        *)
(***************************************************************************)
TripIds == {"", "trip-1"}

\* The stops prop: null, or an array of none, one, two stops.
StopsProps == {<<>>, << <<>> >>, << <<"stop-1">> >>, << <<"stop-1", "stop-2">> >>}

\* What the route endpoint answers: the summary, a status that is not OK
\* (with or without a detail), or nothing (the fetch rejects).
RouteAnswers ==
  {[status |-> 200, detail |-> ""], [status |-> 400, detail |-> ""],
   [status |-> 404, detail |-> "detail"], [status |-> 502, detail |-> ""],
   [status |-> 500, detail |-> ""], [status |-> 0, detail |-> ""]}

\* The component rendered by its parent with new props; its state is kept.
RenderSummary ==
  /\ summaryPending = <<>>
  /\ \E id \in TripIds, list \in StopsProps, flag \in BOOLEAN :
       /\ tripId' = id
       /\ summaryStops' = list
       /\ summaryDisabled' = flag
  /\ UNCHANGED <<summaryLoading, routeSummary, summaryError, hasCalculated,
                 summaryPending>>
  /\ UNCHANGED <<engineVars, clockVars, driverVars, fleetVars, concVars,
                 themeVars, alertVars, pageVars>>

\* const body = stops ? { stops } : {}
RouteBody == IF summaryStops # <<>> THEN <<summaryStops[1]>> ELSE <<>>

\* computeRoute, up to its fetch
computeRoute ==
  /\ IF tripId = ""
     THEN /\ summaryError' = "Trip ID is required"
          /\ UNCHANGED <<summaryLoading, routeSummary, hasCalculated,
                         summaryPending>>
     ELSE /\ summaryLoading' = TRUE
          /\ summaryError' = "null"
          /\ routeSummary' = <<>>
          /\ hasCalculated' = TRUE
          /\ summaryPending' = <<[method |-> "POST",
                                  endpoint |-> <<"/api/trips/", tripId, "/route">>,
                                  body |-> RouteBody]>>
  /\ UNCHANGED <<tripId, summaryStops, summaryDisabled>>

\* The error computeRoute shows for an answer that is not OK.
RouteError(answer) ==
  IF answer.detail # "" THEN answer.detail
  ELSE CASE answer.status = 400 ->
              "Invalid request. Please check your stops data."
         [] answer.status = 404 -> "Trip not found."
         [] answer.status = 502 ->
              "Routing service unavailable. Please try again later."
         [] OTHER -> "An unexpected error occurred."

\* computeRoute, from the answer of its fetch on
RouteAnswer ==
  /\ summaryPending # <<>>
  /\ \E answer \in RouteAnswers :
       IF answer.status = 200
       THEN /\ routeSummary' = <<[total_distance_km |-> 1200,
                                  total_drive_time_minutes |-> 13 * 60,
                                  body |-> summaryPending[1].body]>>
            /\ UNCHANGED summaryError
       ELSE /\ summaryError' =
                 IF answer.status = 0
                 THEN "Connection failed. Check your network and try again."
                 ELSE RouteError(answer)
            /\ UNCHANGED routeSummary
  /\ summaryLoading' = FALSE
  /\ summaryPending' = <<>>
  /\ UNCHANGED <<tripId, summaryStops, summaryDisabled, hasCalculated>>
  /\ UNCHANGED <<engineVars, clockVars, driverVars, fleetVars, concVars,
                 themeVars, alertVars, pageVars>>

\* const isDisabled = disabled || loading || !stops || stops.length < 2
isDisabled ==
  \/ summaryDisabled
  \/ summaryLoading
  \/ summaryStops = <<>>
  \/ Len(summaryStops[1]) < 2

\* A click on Generate Route
GenerateRoute ==
  /\ ~isDisabled
  /\ computeRoute
  /\ UNCHANGED <<engineVars, clockVars, driverVars, fleetVars, concVars,
                 themeVars, alertVars, pageVars>>

\* A click on Retry, which is rendered with the error
RetryRoute ==
  /\ summaryError # "null"
  /\ ~summaryLoading
  /\ computeRoute
  /\ UNCHANGED <<engineVars, clockVars, driverVars, fleetVars, concVars,
                 themeVars, alertVars, pageVars>>

NextSummary == RenderSummary \/ GenerateRoute \/ RetryRoute \/ RouteAnswer

SpecSummary == Init /\ [][NextSummary]_vars

(***************************************************************************)
(* ThemeProvider                                                           *)
(***************************************************************************)
\* What localStorage keeps of a boolean: setItem stores String(value).
String(value) == IF value THEN "true" ELSE "false"

\* useState(() => ...): the saved preference, else the system's
InitialNightMode == IF saved # "null" THEN saved = "true" ELSE systemDark

\* The provider mounted in a tab: the initial state, then the effect that
\* persists nightMode, then the one that listens to the system preference.
ThemeMount ==
  /\ \E tab \in Tabs :
       /\ ~mounted[tab]
       /\ nightMode' = [nightMode EXCEPT ![tab] = InitialNightMode]
       /\ saved' = String(InitialNightMode)
       /\ mounted' = [mounted EXCEPT ![tab] = TRUE]
  /\ UNCHANGED <<systemDark, toggled>>
  /\ UNCHANGED <<engineVars, clockVars, driverVars, fleetVars, concVars,
                 summaryVars, alertVars, pageVars>>

\* The tab closed: the listener removed, localStorage kept.
ThemeUnmount ==
  /\ \E tab \in Tabs :
       /\ mounted[tab]
       /\ nightMode' = [nightMode EXCEPT ![tab] = FALSE]
       /\ mounted' = [mounted EXCEPT ![tab] = FALSE]
  /\ UNCHANGED <<saved, systemDark, toggled>>
  /\ UNCHANGED <<engineVars, clockVars, driverVars, fleetVars, concVars,
                 summaryVars, alertVars, pageVars>>

\* handleChange(e) of a tab: the nightMode it leaves.
handleChange(tab, matches) ==
  IF saved = "null" THEN matches ELSE nightMode[tab]

\* The system colour scheme changes: the listener of every mounted tab runs,
\* and the effect of a tab whose nightMode changed persists it.
SystemChange ==
  /\ systemDark' = ~systemDark
  /\ nightMode' = [tab \in Tabs |->
                     IF mounted[tab] THEN handleChange(tab, systemDark')
                     ELSE nightMode[tab]]
  /\ saved' = IF nightMode' # nightMode THEN String(systemDark') ELSE saved
  /\ UNCHANGED <<mounted, toggled>>
  /\ UNCHANGED <<engineVars, clockVars, driverVars, fleetVars, concVars,
                 summaryVars, alertVars, pageVars>>

\* toggleNightMode, by a click on the NightModeToggle of a tab, and the
\* effect that persists the new nightMode
toggleNightMode ==
  /\ \E tab \in Tabs :
       /\ mounted[tab]
       /\ nightMode' = [nightMode EXCEPT ![tab] = ~nightMode[tab]]
       /\ saved' = String(~nightMode[tab])
  /\ toggled' = TRUE
  /\ UNCHANGED <<mounted, systemDark>>
  /\ UNCHANGED <<engineVars, clockVars, driverVars, fleetVars, concVars,
                 summaryVars, alertVars, pageVars>>

NextTheme == ThemeMount \/ ThemeUnmount \/ SystemChange \/ toggleNightMode

SpecTheme == Init /\ [][NextTheme]_vars

(***************************************************************************)
(* AlertsPanel                                                             *)
(***************************************************************************)
\* How many alerts an answer of getAlerts holds at most.
MaxData == 3

\* The maxAlerts prop.
maxAlerts == 2

\* The alerts the server may hold; timestamps in minutes, "debug" is a
\* severity SEVERITY_CONFIG does not know.
AlertPool ==
  {[id |-> 1, severity |-> "critical", timestamp |-> 10, read |-> FALSE],
   [id |-> 2, severity |-> "critical", timestamp |-> 30, read |-> TRUE],
   [id |-> 3, severity |-> "warning", timestamp |-> 20, read |-> FALSE],
   [id |-> 4, severity |-> "info", timestamp |-> 40, read |-> FALSE],
   [id |-> 5, severity |-> "debug", timestamp |-> 50, read |-> FALSE]}

\* The answers of getAlerts: the alerts in any order, none twice.
AlertData ==
  UNION {{data \in [1..n -> AlertPool] :
            \A i, j \in 1..n : i # j => data[i] # data[j]} : n \in 0..MaxData}

\* SEVERITY_CONFIG[severity]?.priority || 99
priority(severity) ==
  CASE severity = "critical" -> 1
    [] severity = "warning" -> 2
    [] severity = "info" -> 3
    [] OTHER -> 99

\* The comparator with the timestamps the other way round.
compareOldestFirst(a, b) ==
  IF priority(a.severity) # priority(b.severity)
  THEN priority(a.severity) - priority(b.severity)
  ELSE a.timestamp - b.timestamp

\* The comparator of data.sort: negative when a goes before b
compare(a, b) ==
  IF priority(a.severity) # priority(b.severity)
  THEN priority(a.severity) - priority(b.severity)
  ELSE b.timestamp - a.timestamp

\* x put into a sorted list, behind the entries that do not go after it.
InsertAlert(list, x) ==
  LET before == {i \in 1..Len(list) : compare(list[i], x) <= 0}
      at == IF before = {} THEN 0
            ELSE CHOOSE i \in before : \A j \in before : j <= i
  IN SubSeq(list, 1, at) \o <<x>> \o SubSeq(list, at + 1, Len(list))

RECURSIVE sort(_)
\* data.sort(compare): Array.prototype.sort is stable
sort(data) ==
  IF data = <<>> THEN <<>>
  ELSE InsertAlert(sort(SubSeq(data, 1, Len(data) - 1)), data[Len(data)])

\* The interval of 30 seconds calling loadAlerts
PollAlerts ==
  /\ ~alertsPending
  /\ alertsPending' = TRUE
  /\ UNCHANGED <<alerts, alertsLoading, filter, dismissPending>>
  /\ UNCHANGED <<engineVars, clockVars, driverVars, fleetVars, concVars,
                 summaryVars, themeVars, pageVars>>

\* loadAlerts, from the answer of getAlerts on
loadAlerts ==
  /\ alertsPending
  /\ \/ \E data \in AlertData : alerts' = sort(data)
     \/ UNCHANGED alerts
  /\ alertsLoading' = FALSE
  /\ alertsPending' = FALSE
  /\ UNCHANGED <<filter, dismissPending>>
  /\ UNCHANGED <<engineVars, clockVars, driverVars, fleetVars, concVars,
                 summaryVars, themeVars, pageVars>>

\* The filter of filteredAlerts
PassesFilter(alert) ==
  IF filter = "critical" THEN alert.severity = "critical"
  ELSE IF filter = "unread" THEN ~alert.read
  ELSE TRUE

\* const filteredAlerts = alerts.filter(...).slice(0, maxAlerts)
filteredAlerts ==
  LET passing == SelectSeq(alerts, PassesFilter)
  IN SubSeq(passing, 1, Min(maxAlerts, Len(passing)))

\* The filter tabs All and Critical, and View all
setFilter ==
  /\ ~alertsLoading
  /\ \E value \in {"all", "critical"} : filter' = value
  /\ UNCHANGED <<alerts, alertsLoading, alertsPending, dismissPending>>
  /\ UNCHANGED <<engineVars, clockVars, driverVars, fleetVars, concVars,
                 summaryVars, themeVars, pageVars>>

\* handleDismiss of a displayed alert, up to its await
handleDismiss ==
  /\ ~alertsLoading
  /\ dismissPending = <<>>
  /\ \E i \in 1..Len(filteredAlerts) : dismissPending' = <<filteredAlerts[i].id>>
  /\ UNCHANGED <<alerts, alertsLoading, filter, alertsPending>>
  /\ UNCHANGED <<engineVars, clockVars, driverVars, fleetVars, concVars,
                 summaryVars, themeVars, pageVars>>

\* a.id !== alertId
NotDismissed(alert) == alert.id # dismissPending[1]

\* handleDismiss, from the answer of dismissAlert on
DismissAnswer ==
  /\ dismissPending # <<>>
  /\ \/ alerts' = SelectSeq(alerts, NotDismissed)
     \/ UNCHANGED alerts
  /\ dismissPending' = <<>>
  /\ UNCHANGED <<alertsLoading, filter, alertsPending>>
  /\ UNCHANGED <<engineVars, clockVars, driverVars, fleetVars, concVars,
                 summaryVars, themeVars, pageVars>>

NextAlerts ==
  PollAlerts \/ loadAlerts \/ setFilter \/ handleDismiss \/ DismissAnswer

SpecAlerts == Init /\ [][NextAlerts]_vars

(***************************************************************************)
(* AlertToast: time in seconds.                                            *)
(***************************************************************************)
\* How long a toast is followed.
MaxToastAge == 8

\* setTimeout(..., 5000)
ToastDelay == 5

ToastSeverities == {"critical", "warning"}

\* The effect setting the timer for every severity.
StartTimerAlways(severity) == ToastDelay

\* The effect: a timer for the alerts that are not critical
StartTimer(severity) == IF severity # "critical" THEN ToastDelay ELSE Null

\* The toast shown: the first render and the effect
ToastMount ==
  /\ ~toastMounted
  /\ toastMounted' = TRUE
  /\ \E severity \in ToastSeverities :
       /\ toastSeverity' = severity
       /\ timer' = StartTimer(severity)
  /\ visible' = TRUE
  /\ toastAge' = 0
  /\ sinceProps' = 0
  /\ dismissCalls' = {}
  /\ UNCHANGED <<engineVars, clockVars, driverVars, fleetVars, concVars,
                 summaryVars, themeVars, alertVars, appVars, serverVars>>

\* The parent rendering the toast with an alert object or an onDismiss
\* function that is not the one before (the same alert, a new identity): the
\* cleanup of the effect clears the timer and the effect runs again.
ToastRender ==
  /\ toastMounted
  /\ timer' = StartTimer(toastSeverity)
  /\ sinceProps' = 0
  /\ UNCHANGED <<toastMounted, toastSeverity, visible, toastAge, dismissCalls>>
  /\ UNCHANGED <<engineVars, clockVars, driverVars, fleetVars, concVars,
                 summaryVars, themeVars, alertVars, appVars, serverVars>>

\* A second passes; a timer that is due fires first.
ToastTick ==
  /\ toastMounted
  /\ timer # 0
  /\ toastAge < MaxToastAge
  /\ toastAge' = toastAge + 1
  /\ sinceProps' = sinceProps + 1
  /\ timer' = IF timer = Null THEN Null ELSE timer - 1
  /\ UNCHANGED <<toastMounted, toastSeverity, visible, dismissCalls>>
  /\ UNCHANGED <<engineVars, clockVars, driverVars, fleetVars, concVars,
                 summaryVars, themeVars, alertVars, appVars, serverVars>>

\* The timeout: setVisible(false); onDismiss?.()
ToastTimeout ==
  /\ toastMounted
  /\ timer = 0
  /\ visible' = FALSE
  /\ dismissCalls' = dismissCalls \cup {"timer"}
  /\ timer' = Null
  /\ UNCHANGED <<toastMounted, toastSeverity, toastAge, sinceProps>>
  /\ UNCHANGED <<engineVars, clockVars, driverVars, fleetVars, concVars,
                 summaryVars, themeVars, alertVars, appVars, serverVars>>

\* A click on the dismiss button: onClick={onDismiss}
ToastDismissClick ==
  /\ toastMounted
  /\ visible
  /\ dismissCalls' = dismissCalls \cup {"user"}
  /\ UNCHANGED <<toastMounted, toastSeverity, visible, timer, toastAge,
                 sinceProps>>
  /\ UNCHANGED <<engineVars, clockVars, driverVars, fleetVars, concVars,
                 summaryVars, themeVars, alertVars, appVars, serverVars>>

\* The toast unmounted by its parent: the cleanup clears the timer.
ToastUnmount ==
  /\ toastMounted
  /\ toastMounted' = FALSE
  /\ timer' = Null
  /\ toastSeverity' = "info"
  /\ visible' = TRUE
  /\ toastAge' = 0
  /\ sinceProps' = 0
  /\ dismissCalls' = {}
  /\ UNCHANGED <<engineVars, clockVars, driverVars, fleetVars, concVars,
                 summaryVars, themeVars, alertVars, appVars, serverVars>>

NextToast ==
  \/ ToastMount
  \/ ToastRender
  \/ ToastTick
  \/ ToastTimeout
  \/ ToastDismissClick
  \/ ToastUnmount

SpecToast == Init /\ [][NextToast]_vars

(***************************************************************************)
(* App: the views, and the tabs of the fleet dashboard.                    *)
(***************************************************************************)
Views == {"landing", "driver", "planner", "fleet", "upload"}

FleetTabs == {"overview", "trips", "drivers", "analytics"}

\* The buttons of the landing page: Driver Mode, Fleet Dashboard, Plan a
\* Trip, Upload Routes, Start Planning Now, Fleet Manager Portal.  A view
\* that is entered is mounted anew.
LandingClick ==
  /\ currentView = "landing"
  /\ \E view \in {"driver", "fleet", "planner", "upload"} : currentView' = view
  /\ activeTab' = "overview"
  /\ UNCHANGED <<engineVars, clockVars, driverVars, fleetVars, concVars,
                 summaryVars, themeVars, alertVars, toastVars, serverVars>>

\* The views whose header App renders itself, with the logo and the Back
\* button: onClick={() => setCurrentView('landing')}
ViewsWithHeader == {"driver", "planner", "upload"}

\* A click on the logo or on Back
BackClick ==
  /\ currentView \in ViewsWithHeader
  /\ currentView' = "landing"
  /\ UNCHANGED activeTab
  /\ UNCHANGED <<engineVars, clockVars, driverVars, fleetVars, concVars,
                 summaryVars, themeVars, alertVars, toastVars, serverVars>>

\* FleetDashboard takes no props: the onBack App passes is not used.  Its
\* controls are Refresh and the tabs: setActiveTab(tab)
setActiveTab ==
  /\ currentView = "fleet"
  /\ \E tab \in FleetTabs : activeTab' = tab
  /\ UNCHANGED currentView
  /\ UNCHANGED <<engineVars, clockVars, driverVars, fleetVars, concVars,
                 summaryVars, themeVars, alertVars, toastVars, serverVars>>

\* The Refresh button of the fleet dashboard
FleetRefresh == currentView = "fleet" /\ loadDashboardData

NextApp ==
  \/ LandingClick
  \/ BackClick
  \/ setActiveTab
  \/ FleetRefresh
  \/ ThemeMount
  \/ SystemChange
  \/ toggleNightMode

SpecApp == Init /\ [][NextApp]_vars

(***************************************************************************)
(* AlertsPanel and the alerts endpoints of the server.                     *)
(***************************************************************************)
\* The alerts the server raises, and the driver each is about.
RaisedIds == {1, 2, 3}

AlertDriver(id) == IF id = 1 THEN "driver-001" ELSE "driver-002"

AlertOf(id) == CHOOSE alert \in AlertPool : alert.id = id

PanelDriverIds == {"", "driver-001"}

\* filters.key of an object that may lack the key: "" is undefined
Field(filters, key) == IF key \in DOMAIN filters THEN filters[key] ELSE ""

\* loadAlerts: const params = {}; if (driverId) params.driver_id = driverId
loadAlertsParams(driver) ==
  [key \in (IF driver # "" THEN {"driver_id"} ELSE {}) |-> driver]

\* getAlerts(filters): the request, with the query string URLSearchParams
\* builds from filters.driverId, filters.severity, filters.unacknowledgedOnly
getAlerts(filters) ==
  [path |-> "/api/alerts",
   query |->
     (IF Field(filters, "driverId") # ""
      THEN << <<"driver_id", Field(filters, "driverId")>> >> ELSE <<>>)
     \o (IF Field(filters, "severity") # ""
         THEN << <<"severity", Field(filters, "severity")>> >> ELSE <<>>)
     \o (IF Field(filters, "unacknowledgedOnly") # ""
         THEN << <<"unacknowledged_only", "true">> >> ELSE <<>>)]

\* The server raises an alert.
ServerRaise ==
  /\ \E id \in RaisedIds :
       /\ serverAlerts[id] = "none"
       /\ serverAlerts' = [serverAlerts EXCEPT ![id] = "active"]
  /\ UNCHANGED <<panelDriverId, getAlertsCall, dismissCall, dismissed>>
  /\ UNCHANGED alertVars
  /\ UNCHANGED <<engineVars, clockVars, driverVars, fleetVars, concVars,
                 summaryVars, themeVars, toastVars, appVars>>

\* The panel rendered with another driverId: the effect runs again and
\* calls loadAlerts.
PanelRender ==
  /\ getAlertsCall = <<>>
  /\ \E driver \in PanelDriverIds :
       /\ driver # panelDriverId
       /\ panelDriverId' = driver
       /\ getAlertsCall' = <<[request |-> getAlerts(loadAlertsParams(driver)),
                              served |-> FALSE, data |-> <<>>]>>
  /\ alertsPending' = TRUE
  /\ UNCHANGED <<serverAlerts, dismissCall, dismissed>>
  /\ UNCHANGED <<alerts, alertsLoading, filter, dismissPending>>
  /\ UNCHANGED <<engineVars, clockVars, driverVars, fleetVars, concVars,
                 summaryVars, themeVars, toastVars, appVars>>

\* loadAlerts called by the interval, up to its await
StartLoadAlerts ==
  /\ getAlertsCall = <<>>
  /\ getAlertsCall' = <<[request |-> getAlerts(loadAlertsParams(panelDriverId)),
                         served |-> FALSE, data |-> <<>>]>>
  /\ alertsPending' = TRUE
  /\ UNCHANGED <<panelDriverId, serverAlerts, dismissCall, dismissed>>
  /\ UNCHANGED <<alerts, alertsLoading, filter, dismissPending>>
  /\ UNCHANGED <<engineVars, clockVars, driverVars, fleetVars, concVars,
                 summaryVars, themeVars, toastVars, appVars>>

\* The ids the server answers a request with: the active alerts, those of
\* the driver of the query if it names one.
Answered(request) ==
  {id \in RaisedIds :
     /\ serverAlerts[id] = "active"
     /\ \A i \in 1..Len(request.query) :
          request.query[i][1] = "driver_id" =>
            AlertDriver(id) = request.query[i][2]}

RECURSIVE ById(_)
\* The alerts of a set of ids, in the order of the ids.
ById(ids) ==
  IF ids = {} THEN <<>>
  ELSE LET last == CHOOSE id \in ids : \A other \in ids : other <= id
       IN Append(ById(ids \ {last}), AlertOf(last))

\* GET /api/alerts at the server
ServeGetAlerts ==
  /\ getAlertsCall # <<>>
  /\ ~getAlertsCall[1].served
  /\ getAlertsCall' = <<[getAlertsCall[1] EXCEPT
                           !.served = TRUE,
                           !.data = ById(Answered(getAlertsCall[1].request))]>>
  /\ UNCHANGED <<panelDriverId, serverAlerts, dismissCall, dismissed>>
  /\ UNCHANGED alertVars
  /\ UNCHANGED <<engineVars, clockVars, driverVars, fleetVars, concVars,
                 summaryVars, themeVars, toastVars, appVars>>

\* loadAlerts, from the answer of getAlerts on: the answer, or a failure
ResolveLoadAlerts ==
  /\ getAlertsCall # <<>>
  /\ \/ /\ getAlertsCall[1].served
        /\ alerts' = sort(getAlertsCall[1].data)
     \/ UNCHANGED alerts
  /\ alertsLoading' = FALSE
  /\ alertsPending' = FALSE
  /\ getAlertsCall' = <<>>
  /\ UNCHANGED <<panelDriverId, serverAlerts, dismissCall, dismissed>>
  /\ UNCHANGED <<filter, dismissPending>>
  /\ UNCHANGED <<engineVars, clockVars, driverVars, fleetVars, concVars,
                 summaryVars, themeVars, toastVars, appVars>>

\* handleDismiss of a displayed alert, up to its await
StartDismiss ==
  /\ ~alertsLoading
  /\ dismissCall = <<>>
  /\ \E i \in 1..Len(filteredAlerts) :
       /\ dismissCall' = <<[id |-> filteredAlerts[i].id, served |-> FALSE]>>
       /\ dismissPending' = <<filteredAlerts[i].id>>
  /\ UNCHANGED <<panelDriverId, serverAlerts, getAlertsCall, dismissed>>
  /\ UNCHANGED <<alerts, alertsLoading, filter, alertsPending>>
  /\ UNCHANGED <<engineVars, clockVars, driverVars, fleetVars, concVars,
                 summaryVars, themeVars, toastVars, appVars>>

\* POST /api/alerts/{id}/dismiss at the server
ServeDismiss ==
  /\ dismissCall # <<>>
  /\ ~dismissCall[1].served
  /\ serverAlerts' = [serverAlerts EXCEPT ![dismissCall[1].id] = "dismissed"]
  /\ dismissCall' = <<[dismissCall[1] EXCEPT !.served = TRUE]>>
  /\ UNCHANGED <<panelDriverId, getAlertsCall, dismissed>>
  /\ UNCHANGED alertVars
  /\ UNCHANGED <<engineVars, clockVars, driverVars, fleetVars, concVars,
                 summaryVars, themeVars, toastVars, appVars>>

\* handleDismiss, from the answer of dismissAlert on: success or a failure
ResolveDismiss ==
  /\ dismissCall # <<>>
  /\ \/ /\ dismissCall[1].served
        /\ alerts' = SelectSeq(alerts, NotDismissed)
        /\ dismissed' = dismissed \cup {dismissCall[1].id}
     \/ UNCHANGED <<alerts, dismissed>>
  /\ dismissCall' = <<>>
  /\ dismissPending' = <<>>
  /\ UNCHANGED <<panelDriverId, serverAlerts, getAlertsCall>>
  /\ UNCHANGED <<alertsLoading, filter, alertsPending>>
  /\ UNCHANGED <<engineVars, clockVars, driverVars, fleetVars, concVars,
                 summaryVars, themeVars, toastVars, appVars>>

NextAlertsServer ==
  \/ ServerRaise
  \/ PanelRender
  \/ StartLoadAlerts
  \/ ServeGetAlerts
  \/ ResolveLoadAlerts
  \/ StartDismiss
  \/ ServeDismiss
  \/ ResolveDismiss

SpecAlertsServer == Init /\ [][NextAlertsServer]_vars

(***************************************************************************)
(* Properties                                                              *)
(***************************************************************************)
\* The instant an entry ends, the open entry never ending.
Forever == 1000 * 1000 * 1000
EndOf(e) == IF e.end = Null THEN Forever ELSE e.end

\* C1: recordDutyChange to DRIVING while canDrive is false at that time (the
\* drive cap exhausted, a break owed, the 14-hour window expired or the
\* 70-hour cycle exhausted) fails with InvalidTransition, the log is what it
\* was and the prior status is still active; and the dashboard has no
\* start_driving request in flight while the can_drive it last fetched is
\* false.
C1_DrivingRefused ==
  /\ (/\ res.op = "recordDutyChange"
      /\ res.status = DRIVING
      /\ LET s == HosSnapshot(res.before, res.asOf)
         IN \/ s.drivingHoursRemaining = 0
            \/ s.breakRequired
            \/ s.onDutyHoursRemaining = 0
            \/ s.cycleHoursRemaining <= 0)
     => /\ res.outcome = "InvalidTransition"
        /\ logs[res.driver] = res.before
        /\ ActiveStatus(logs[res.driver]) = ActiveStatus(res.before)
  /\ (pc = "logHOSAction" /\ actionLoading = "start_driving")
     => (hosStatus = <<>> \/ hosStatus[1].can_drive)

\* C1 witness: the engine has refused DRIVING to a driver who was not
\* driving, because canDrive was false.
C1_Witness ==
  /\ res.op = "recordDutyChange"
  /\ res.status = DRIVING
  /\ res.before # <<>>
  /\ ActiveStatus(res.before) # DRIVING
  /\ ~HosSnapshot(res.before, res.asOf).canDrive
  /\ res.outcome = "InvalidTransition"
  /\ hosStatus # <<>>

\* C2: a driver's log entries never overlap, exactly one of them is open, and
\* so exactly one duty status is active at every instant from the first entry
\* on.
C2_OneOpenNoOverlap ==
  \A d \in Drivers :
    LET log == logs[d]
        idx == 1..Len(log)
    IN log # <<>> =>
         /\ Cardinality({i \in idx : log[i].end = Null}) = 1
         /\ \A i \in idx : log[i].start <= EndOf(log[i])
         /\ \A i, j \in idx :
              i # j => ~(log[i].start < EndOf(log[j]) /\ log[j].start < EndOf(log[i]))
         /\ \A k \in idx : \A t \in {log[k].start, log[k].start + 1} :
              t >= log[1].start =>
                Cardinality({i \in idx : log[i].start <= t /\ t < EndOf(log[i])}) = 1

\* C2 witness: a log of three entries after an accepted change.
C2_Witness ==
  /\ res.op = "recordDutyChange"
  /\ res.outcome = "ok"
  /\ Len(logs[res.driver]) = 3

\* Minutes of entry e that lie before asOf.
Span(e, asOf) ==
  IF e.start > asOf THEN 0
  ELSE (IF e.end = Null \/ e.end > asOf THEN asOf ELSE e.end) - e.start

RECURSIVE DriveBack(_, _, _, _)
\* Driving minutes of log[1..i], read backwards from asOf, down to the last
\* contiguous non-driving period of at least 30 minutes; nd is the length of
\* the non-driving period read so far.
DriveBack(log, i, asOf, nd) ==
  IF i = 0 THEN 0
  ELSE IF log[i].start > asOf THEN DriveBack(log, i - 1, asOf, nd)
  ELSE IF log[i].status = DRIVING
    THEN Span(log[i], asOf) + DriveBack(log, i - 1, asOf, 0)
  ELSE IF nd + Span(log[i], asOf) >= BreakLen THEN 0
  ELSE DriveBack(log, i - 1, asOf, nd + Span(log[i], asOf))

DrivingSinceBreak(log, asOf) == DriveBack(log, Len(log), asOf, 0)

\* C3: once the driving time since the last non-driving period of at least 30
\* minutes has reached 8 hours, breakRequired is true and canDrive false, a
\* change to DRIVING is refused and leaves the log alone; and whenever the
\* dashboard shows a snapshot with break_required, its canDrive is false and
\* its Start Driving button is disabled.
C3_BreakOwed ==
  /\ \A d \in Drivers :
       DrivingSinceBreak(logs[d], now) >= BreakAfter
         => /\ HosSnapshot(logs[d], now).breakRequired
            /\ ~HosSnapshot(logs[d], now).canDrive
  /\ (/\ res.op = "recordDutyChange"
      /\ res.status = DRIVING
      /\ DrivingSinceBreak(res.before, res.asOf) >= BreakAfter)
     => (res.outcome # "ok" /\ logs[res.driver] = res.before)
  /\ BreakWarningShown => (~canDrive /\ StartDrivingDisabled)

\* C3 witness: the dashboard shows the break warning of a driver who has
\* driven 8 hours without a break, and no action is in flight.
C3_Witness ==
  /\ ~loading
  /\ actionLoading = "null"
  /\ BreakWarningShown
  /\ DrivingSinceBreak(logs[driverId], now) >= BreakAfter
  /\ ActiveStatus(logs[driverId]) # DRIVING

RECURSIVE SpanSum(_, _, _, _)
\* Minutes before asOf of the entries log[j..k].
SpanSum(log, j, k, asOf) ==
  IF j > k THEN 0 ELSE Span(log[j], asOf) + SpanSum(log, j + 1, k, asOf)

\* Every entry with driving time is followed by an uninterrupted OFF_DUTY or
\* SLEEPER_BERTH period of at least 10 hours.
RestedSinceDriving(log, asOf) ==
  \A i \in 1..Len(log) :
    (log[i].status = DRIVING /\ Span(log[i], asOf) > 0)
      => \E j \in (i + 1)..Len(log) : \E k \in j..Len(log) :
           /\ \A m \in j..k : IsRest(log[m].status)
           /\ SpanSum(log, j, k, asOf) >= RestLen

\* C4: drivingHoursRemaining lies between 0 and 11 hours in every snapshot,
\* it is 11 only when all driving is followed by an uninterrupted rest of at
\* least 10 hours, and the fleet dashboard's drive-hours bar lies within
\* 0..100 percent.
C4_DriveHoursRange ==
  /\ \A d \in Drivers :
       LET s == HosSnapshot(logs[d], now)
       IN /\ 0 <= s.drivingHoursRemaining
          /\ s.drivingHoursRemaining <= DriveCap
          /\ s.drivingHoursRemaining = DriveCap => RestedSinceDriving(logs[d], now)
  /\ 0 <= res.snap.drivingHoursRemaining
  /\ res.snap.drivingHoursRemaining <= DriveCap
  /\ dashboard # <<>> =>
       \A d \in Drivers :
         LET driver == dashboard[1].driver_status[d]
         IN /\ 0 <= driver.driving_hours_remaining
            /\ driver.driving_hours_remaining <= DriveCap
            /\ 0 <= HosBarWidth(driver)
            /\ HosBarWidth(driver) <= 100

\* C4 witness: the fleet dashboard shows one driver with an empty bar, driving
\* past the cap, and one with a full bar, reset by a 10-hour rest after
\* driving.
C4_Witness ==
  /\ dashboard # <<>>
  /\ \E d \in Drivers :
       /\ HosBarWidth(dashboard[1].driver_status[d]) = 0
       /\ ActiveStatus(logs[d]) = DRIVING
       /\ now - logs[d][Len(logs[d])].start > DriveCap
  /\ \E d \in Drivers :
       /\ HosBarWidth(dashboard[1].driver_status[d]) = 100
       /\ \E i \in 1..Len(logs[d]) :
            logs[d][i].status = DRIVING /\ Span(logs[d][i], now) > 0
       /\ HosSnapshot(logs[d], now).drivingHoursRemaining = DriveCap

\* The duty status at instant t, "none" before the first entry.
StatusAt(log, t) ==
  IF \E i \in 1..Len(log) : log[i].start <= t /\ t < EndOf(log[i])
  THEN log[CHOOSE i \in 1..Len(log) : log[i].start <= t /\ t < EndOf(log[i])].status
  ELSE "none"

\* Under SpecCycle every timestamp lies on a grid of two hours.
Cell == 2 * 60

\* On-duty minutes in [lo, hi), counted instant by instant on the grid.
OnDutyCells(log, lo, hi) ==
  Cell * Cardinality({k \in 0..((hi - lo) \div Cell - 1) :
                        IsOnDuty(StatusAt(log, lo + k * Cell))})

\* C5: cycleHoursRemaining at asOf is 70 hours minus the on-duty time inside
\* the 8x24h window ending at asOf; at a later asOf it has lost the on-duty
\* time accrued since and regained exactly the on-duty time that left the
\* window, so it does not increase while nothing leaves the window.
C5_CycleWindow ==
  res.op # "none" =>
    LET log == logs[res.driver]
        t == res.asOf
    IN /\ res.snap.cycleHoursRemaining
            = CycleCap - OnDutyCells(log, t - CycleWindow, t)
       /\ \A d \in CycleSteps :
            LET later == HosSnapshot(log, t + d).cycleHoursRemaining
                accrued == OnDutyCells(log, t, t + d)
                left == OnDutyCells(log, t - CycleWindow, t + d - CycleWindow)
            IN /\ later = res.snap.cycleHoursRemaining - accrued + left
               /\ left = 0 => later <= res.snap.cycleHoursRemaining

\* C5 witness: a snapshot taken when part of an on-duty entry has left the
\* window and part of it is still inside.
C5_Witness ==
  /\ res.op = "getSnapshot"
  /\ \E i \in 1..Len(res.before) :
       /\ IsOnDuty(res.before[i].status)
       /\ res.before[i].start < res.asOf - CycleWindow
       /\ EndOf(res.before[i]) > res.asOf - CycleWindow
  /\ res.snap.cycleHoursRemaining < CycleCap

RECURSIVE RestBack(_, _, _)
\* Minutes of the uninterrupted rest that ends log[1..i] at asOf.
RestBack(log, i, asOf) ==
  IF i = 0 THEN 0
  ELSE IF log[i].start > asOf THEN RestBack(log, i - 1, asOf)
  ELSE IF IsRest(log[i].status) THEN Span(log[i], asOf) + RestBack(log, i - 1, asOf)
  ELSE 0

\* The driver is resting at asOf and has rested 10 hours without interruption.
JustRested(log, asOf) ==
  /\ log # <<>>
  /\ log[Len(log)].start <= asOf
  /\ IsRest(log[Len(log)].status)
  /\ RestBack(log, Len(log), asOf) >= RestLen

\* C7 as claimed: after a qualifying rest getSnapshot reports 11 hours of
\* driving, 14 hours on duty and canDrive = true, whatever the earlier log.
C7_Claimed ==
  (res.op = "getSnapshot" /\ JustRested(res.before, res.asOf))
    => /\ res.snap.drivingHoursRemaining = DriveCap
       /\ res.snap.onDutyHoursRemaining = WindowCap
       /\ res.snap.canDrive

\* C7 as amended: after a qualifying rest getSnapshot reports 11 hours of
\* driving and 14 hours on duty, and canDrive is true exactly when the 70-hour
\* cycle is not exhausted; the dashboard shows for that snapshot what it shows
\* by default, 11.0 and 14.0, and Ready when canDrive is true.
C7_AfterRest ==
  (res.op = "getSnapshot" /\ JustRested(res.before, res.asOf))
    => /\ res.snap.drivingHoursRemaining = DriveCap
       /\ res.snap.onDutyHoursRemaining = WindowCap
       /\ (res.snap.canDrive <=> res.snap.cycleHoursRemaining > 0)
       /\ DriveHoursLeft(<<res.snap>>) = DriveHoursLeft(<<>>)
       /\ OnDutyLeft(<<res.snap>>) = OnDutyLeft(<<>>)
       /\ DriveHoursLeft(<<>>) = 110
       /\ OnDutyLeft(<<>>) = 140
       /\ (hosStatus = <<>> => StatusShown(canDrive) = "Ready")
       /\ (res.snap.canDrive => StatusShown(res.snap.canDrive) = "Ready")

\* C7 witness: a snapshot right after a qualifying rest that followed on-duty
\* time.
C7_Witness ==
  /\ res.op = "getSnapshot"
  /\ JustRested(res.before, res.asOf)
  /\ \E i \in 1..Len(res.before) :
       IsOnDuty(res.before[i].status) /\ Span(res.before[i], res.asOf) > 0
  /\ res.snap.canDrive

RECURSIVE DrivenBack(_, _, _, _)
\* Driving minutes of log[1..i], read backwards from asOf, down to the last
\* uninterrupted rest of at least 10 hours; rest is the length of the rest
\* read so far.
DrivenBack(log, i, asOf, rest) ==
  IF i = 0 THEN 0
  ELSE IF log[i].start > asOf THEN DrivenBack(log, i - 1, asOf, rest)
  ELSE IF IsRest(log[i].status)
    THEN IF rest + Span(log[i], asOf) >= RestLen THEN 0
         ELSE DrivenBack(log, i - 1, asOf, rest + Span(log[i], asOf))
  ELSE (IF log[i].status = DRIVING THEN Span(log[i], asOf) ELSE 0)
       + DrivenBack(log, i - 1, asOf, 0)

DrivenSinceRest(log, asOf) == DrivenBack(log, Len(log), asOf, 0)

\* The scenario of C8: projectTrip, for a driver who has driven 10 of the 11
\* hours, of two legs of an hour and a half of driving each.
TenOfElevenTwoLegs ==
  /\ res.op = "projectTrip"
  /\ DrivenSinceRest(res.before, res.asOf) = 10 * 60
  /\ Len(res.legs) = 2
  /\ \A i \in 1..2 : res.legs[i].drive = 90

C9_RestFlagMatchesBreaks ==
  /\ (pending # <<>> /\ pending[1].api = "planTrip")
       => \A drives \in [1..Len(pending[1].stops) -> LegDrives] :
            \A t \in EventTimes(LogOf(pending[1].driver_id), PlannerSteps) :
              LET answer == planTrip(pending[1], drives, t)
              IN /\ answer.hos.can_complete_without_rest
                      <=> (\A i \in 1..Len(answer.breaks) :
                             answer.breaks[i].break_type # REST_10HR)
                 /\ answer.hos.required_breaks = Len(answer.breaks)
  /\ (step = 3 /\ plannedRoute # <<>>)
       => /\ (CanCompleteWithoutRest = "Yes")
               <=> (\A i \in 1..Len(PlannedBreaks) : PlannedBreaks[i] # REST_10HR)
          /\ CanCompleteWithoutRest \in {"Yes", "No"}
          /\ RequiredBreaks = Len(PlannedBreaks)

\* C9 witness: the review step shows a plan whose only break is the 30-minute
\* break, for a driver who had driven 8 hours when the trip was planned.
C9_Witness ==
  /\ step = 3
  /\ plannedRoute # <<>>
  /\ PlannedBreaks = <<REQUIRED_30MIN>>
  /\ CanCompleteWithoutRest = "Yes"
  /\ RequiredBreaks = 1
  /\ logs[driverId] # <<>>

\* C10: projectTrip leaves every driver's log as it was, and the snapshot a
\* following getSnapshot returns for any asOf is the one it returned before.
C10_WhatIf ==
  /\ [](res.op = "projectTrip"
          => /\ logs[res.driver] = res.before
             /\ HosSnapshot(logs[res.driver], res.asOf) = res.snap)
  /\ [][res'.op = "projectTrip"
          => /\ logs' = logs
             /\ \A t \in EventTimes(logs[res'.driver], TripSteps) :
                  HosSnapshot(logs'[res'.driver], t)
                    = HosSnapshot(logs[res'.driver], t)]_vars

\* C10 witness: a projection with a planned break for a driver with a log,
\* whose simulated timeline has grown beyond that log.
C10_Witness ==
  /\ res.op = "projectTrip"
  /\ res.before # <<>>
  /\ res.proj.breaks # <<>>
  /\ Len(res.proj.timeline) > Len(res.before)
  /\ logs[res.driver] = res.before

C12_OutOfOrderRejected ==
  /\ (/\ res.op = "recordDutyChange"
      /\ res.before # <<>>
      /\ res.asOf < res.before[Len(res.before)].start)
       => /\ res.outcome = "OutOfOrderTimestamp"
          /\ logs[res.driver] = res.before
  /\ \A d \in Drivers : \A i, j \in 1..Len(logs[d]) :
       i < j => logs[d][i].start <= logs[d][j].start

\* C12 witness: an event 15 minutes before the open entry of a log of two
\* entries has been rejected.
C12_Witness ==
  /\ res.op = "recordDutyChange"
  /\ Len(res.before) >= 2
  /\ res.asOf < res.before[Len(res.before)].start
  /\ res.status # ActiveStatus(res.before)
  /\ res.outcome = "OutOfOrderTimestamp"

\* A log as recordDutyChange leaves it: every entry but the last closed where
\* the next one starts, the last one open.
WellFormed(log) ==
  \/ log = <<>>
  \/ /\ log[Len(log)].end = Null
     /\ \A i \in 1..(Len(log) - 1) : log[i].end = log[i + 1].start

\* C13: a getSnapshot that reads a driver's log while a recordDutyChange for
\* that driver is in flight sees the complete log of before the write or the
\* complete log of after it, never the open entry closed with no new entry
\* opened and never two open entries, and returns the snapshot of the log it
\* saw; a write changes the log of its own driver only, whatever the writes
\* of other drivers do meanwhile.
C13_NoTornRead ==
  /\ [](reading # <<>> =>
          LET r == reading[1]
          IN /\ WellFormed(r.seen)
             /\ Cardinality({i \in 1..Len(r.seen) : r.seen[i].end = Null})
                  = (IF r.seen = <<>> THEN 0 ELSE 1)
             /\ r.during # <<>> =>
                  r.seen \in {r.during[1].before,
                              Transition(r.during[1].before, r.during[1].status,
                                         r.during[1].timestamp)})
  /\ [](res.op = "getSnapshot" =>
          /\ WellFormed(res.before)
          /\ res.snap = HosSnapshot(res.before, res.asOf))
  /\ [](\A d \in Drivers : writing[d] # <<>> => logs[d] = writing[d][1].before)
  /\ [][\A d \in Drivers :
          logs'[d] # logs[d] =>
            /\ writing[d] # <<>>
            /\ logs'[d] = Transition(logs[d], writing[d][1].status,
                                     writing[d][1].timestamp)]_vars

\* C13 witness: a getSnapshot has read the log of a driver whose write had
\* closed the open entry in its copy and not yet opened the new one, while a
\* write of the other driver was in flight too.
C13_Witness ==
  /\ reading # <<>>
  /\ reading[1].during # <<>>
  /\ ~reading[1].during[1].opened
  /\ reading[1].during[1].before # <<>>
  /\ reading[1].seen = reading[1].during[1].before
  /\ \A d \in Drivers : writing[d] # <<>>

\* The HOS calls of the driver dashboard.
HosCalls == {"getDriverHOS", "logHOSAction"}

\* C14: every failure of an HOS call (getDriverHOS, logHOSAction) is thrown
\* by apiRequest to the handler that made the call, and when that handler
\* has ended the dashboard shows an error message to the user.
C14_Claimed ==
  (pc = "idle" /\ thrown \in HosCalls) => message.type = "error"

\* What the code does of C14: a failure of an HOS call made by handleHOSAction
\* or handleQuickAction ends in an error message; loadDriverData's does not.
C14_HandlerFailuresShown ==
  [][(pc \in {"logHOSAction", "hosGetDriverHOS", "quickGetDriverHOS"}
        /\ thrown' \in HosCalls)
       => (pc' = "idle" /\ message'.type = "error")]_vars

\* C14 witness: loadDriverData has ended after its getDriverHOS failed; the
\* dashboard shows no message, the default clocks and an enabled Start
\* Driving button.
C14_Witness ==
  /\ pc = "idle"
  /\ ~loading
  /\ thrown = "getDriverHOS"
  /\ message = NoMessage
  /\ hosStatus = <<>>
  /\ DriveHoursLeft(hosData) = 110
  /\ StatusShown(canDrive) = "Ready"
  /\ ~StartDrivingDisabled

\* The requests to the HOS action endpoint that are in flight: the one
\* handleHOSAction awaits.
HosActionRequests ==
  IF pc = "logHOSAction" THEN {logHOSAction(driverId, actionLoading)} ELSE {}

\* C15: every request sent to the driver HOS action endpoint is a POST for
\* the dashboard's driverId whose action is one of start_driving,
\* stop_driving, start_rest, end_rest; a quick action never goes there.
C15_HosActionRequests ==
  /\ \A r \in HosActionRequests :
       /\ r.method = "POST"
       /\ r.endpoint = <<"/api/drivers/", driverId, "/hos/action">>
       /\ r.body.action \in
            {"start_driving", "stop_driving", "start_rest", "end_rest"}
  /\ actionLoading \in QuickActions => HosActionRequests = {}

\* C15 witness: the request of an End Rest click is in flight, for a driver
\* whose log already has entries.
C15_Witness ==
  /\ HosActionRequests # {}
  /\ actionLoading = "end_rest"
  /\ message = NoMessage
  /\ hosStatus # <<>>
  /\ logs[driverId] # <<>>

\* A stop of the form says where it is: by latitude and longitude, or by
\* address, city, state and zip.
PlaceGiven(stop) ==
  \/ stop.latitude # <<>> /\ stop.longitude # <<>>
  \/ stop.address # "" /\ stop.city # "" /\ stop.state # "" /\ stop.zip # ""

\* The form of step 2 is fit to be planned.
FormComplete ==
  /\ startLocation.lat # <<>>
  /\ startLocation.lon # <<>>
  /\ Len(stops) >= 1
  /\ \A i \in 1..Len(stops) : PlaceGiven(stops[i])

\* A plan request is awaited.
PlanRequested == pending # <<>> /\ pending[1].api = "planTrip"

\* C16: a trip plan request is sent only when the start latitude and
\* longitude are both present, at least one stop exists and every stop has
\* either latitude and longitude or all of address, city, state and zip;
\* handlePlanTrip on any other form sends no request, sets an error message
\* and leaves the wizard on step 2.
C16_PlanOnlyCompleteForms ==
  /\ [](PlanRequested =>
          /\ FormComplete
          /\ pending[1].start_latitude # NaN
          /\ pending[1].start_longitude # NaN
          /\ Len(pending[1].stops) >= 1
          /\ \A i \in 1..Len(pending[1].stops) :
               LET stop == pending[1].stops[i]
               IN \/ stop.latitude # Null /\ stop.longitude # Null
                  \/ /\ stop.address # "null" /\ stop.city # "null"
                     /\ stop.state # "null" /\ stop.zip # "null")
  /\ [][(step = 2 /\ ~FormComplete /\ handlePlanTrip) =>
          /\ pending' = <<>>
          /\ ~plannerLoading'
          /\ plannerError' # <<>>
          /\ step' = 2]_vars
  /\ [][(step = 2 /\ FormComplete /\ handlePlanTrip) =>
          PlanRequested' /\ plannerError' = <<>>]_vars

\* C16 witness: a plan request is awaited for a stop given by its full
\* address and no coordinates.
C16_Witness ==
  /\ PlanRequested
  /\ stops[1].latitude = <<>>
  /\ stops[1].longitude = <<>>
  /\ stops[1].state = "TX"
  /\ pending[1].stops[1].zip = "75201"
  /\ pending[1].stops[1].latitude = Null

\* C17: every stop of a plan request carries service_duration_minutes as an
\* integer within 0..480, equal to the number the dispatcher entered for the
\* stop; an entered 0 is sent as 0.
C17_Claimed ==
  PlanRequested =>
    \A i \in 1..Len(pending[1].stops) :
      /\ pending[1].stops[i].service_duration_minutes \in 0..480
      /\ stops[i].service_duration_minutes # <<>> =>
           pending[1].stops[i].service_duration_minutes
             = parseInt(stops[i].service_duration_minutes)

\* What the code does of C17: the number entered is sent, whatever its size,
\* except that 30 is sent for 0 and for an empty input.
C17_SentOrThirty ==
  PlanRequested =>
    \A i \in 1..Len(pending[1].stops) :
      LET entered == stops[i].service_duration_minutes
          sent == pending[1].stops[i].service_duration_minutes
      IN /\ sent \in Nat \ {0}
         /\ entered \in {<<>>, <<0>>} => sent = 30
         /\ entered \notin {<<>>, <<0>>} => sent = parseInt(entered)

\* C17 witness: a plan request is awaited whose stop has the service time 0
\* in the form and 30 in the request.
C17_Witness ==
  /\ PlanRequested
  /\ stops[1].service_duration_minutes = <<0>>
  /\ pending[1].stops[1].service_duration_minutes = 30

\* A plan request is awaited whose stop has the service time 600, above the
\* 480 minutes of the stop format.
C17_AboveRange ==
  /\ PlanRequested
  /\ pending[1].stops[1].service_duration_minutes = 600

\* C18: a TripRouteSummary with a tripId and no stops prop, neither disabled
\* by its parent nor calculating, has a usable Generate Route control; the
\* request computeRoute sends has an empty body when there is no stops prop
\* and carries the stops when there is one.
C18_Claimed ==
  /\ (tripId # "" /\ summaryStops = <<>> /\ ~summaryDisabled /\ ~summaryLoading)
       => ~isDisabled
  /\ summaryPending # <<>> =>
       summaryPending[1].body
         = (IF summaryStops = <<>> THEN <<>> ELSE <<summaryStops[1]>>)

\* What the code does of C18: the body of the request follows the stops prop,
\* and Generate Route is disabled whenever there are fewer than two stops.
C18_BodyFollowsStops ==
  /\ summaryPending # <<>> =>
       /\ summaryPending[1].endpoint = <<"/api/trips/", tripId, "/route">>
       /\ summaryPending[1].body
            = (IF summaryStops = <<>> THEN <<>> ELSE <<summaryStops[1]>>)
  /\ (summaryStops = <<>> \/ Len(summaryStops[1]) < 2) => isDisabled

\* C18 witness: the component has a tripId and no stops prop, nothing is being
\* calculated, the parent has not disabled it, no error offers a Retry, and
\* Generate Route is disabled.
C18_Witness ==
  /\ tripId = "trip-1"
  /\ summaryStops = <<>>
  /\ ~summaryDisabled
  /\ ~summaryLoading
  /\ summaryError = "null"
  /\ isDisabled

\* A request with an empty body is awaited: sent by Retry, after a failed
\* request with stops and a render without them.
C18_EmptyBodySent ==
  /\ summaryPending # <<>>
  /\ summaryPending[1].body = <<>>

\* C19: while the user has not clicked the night-mode toggle, a change of the
\* system colour scheme switches the nightMode of every mounted provider to
\* the system's; once the user has clicked it, a change of the system colour
\* scheme leaves nightMode as it is.
C19_Claimed ==
  /\ [][(systemDark' # systemDark /\ ~toggled) =>
          \A tab \in Tabs : mounted[tab] => nightMode'[tab] = systemDark']_vars
  /\ [][(systemDark' # systemDark /\ toggled) => nightMode' = nightMode]_vars

\* What the code does of C19: the effect that persists nightMode runs when
\* the provider mounts, so a preference is saved from then on and no change
\* of the system colour scheme alters nightMode, toggled or not; the system
\* decides only what the first mount starts with.
C19_SystemChangesIgnored ==
  /\ [](\A tab \in Tabs : mounted[tab] => saved # "null")
  /\ [][systemDark' # systemDark => nightMode' = nightMode]_vars
  /\ [][(saved = "null" /\ saved' # "null") =>
          \E tab \in Tabs : mounted'[tab] /\ nightMode'[tab] = systemDark]_vars

\* C19 witness: the user has never clicked the toggle, the system colour
\* scheme has changed to dark since the provider was mounted, and the
\* provider is still in day mode.
C19_Witness ==
  /\ ~toggled
  /\ systemDark
  /\ \E tab \in Tabs : mounted[tab] /\ ~nightMode[tab]
  /\ saved = "false"

\* The place of a severity in the order critical, warning, info, any other.
SeverityRank(severity) ==
  IF severity = "critical" THEN 1
  ELSE IF severity = "warning" THEN 2
  ELSE IF severity = "info" THEN 3
  ELSE 4

\* The list goes by severity and, within a severity, from the newest on.
Ordered(list) ==
  \A i, j \in 1..Len(list) :
    i < j =>
      \/ SeverityRank(list[i].severity) < SeverityRank(list[j].severity)
      \/ /\ SeverityRank(list[i].severity) = SeverityRank(list[j].severity)
         /\ list[i].timestamp >= list[j].timestamp

\* The places in the alerts list of the alerts that pass the active filter.
Passing ==
  {i \in 1..Len(alerts) :
     \/ filter = "all"
     \/ filter = "critical" /\ alerts[i].severity = "critical"
     \/ filter = "unread" /\ ~alerts[i].read}

\* C20: the alerts list a successful loadAlerts leaves is ordered critical,
\* warning, info, unknown severities last, and within a severity newest
\* first, and stays so; the panel displays, in that order, the first
\* maxAlerts alerts of the list that pass the active filter.
C20_OrderedAndCut ==
  /\ [][(alertsPending /\ ~alertsPending') => Ordered(alerts')]_vars
  /\ [](Ordered(alerts))
  /\ [](/\ Len(filteredAlerts) = Min(maxAlerts, Cardinality(Passing))
        /\ \A k \in 1..Len(filteredAlerts) :
             \E i \in Passing :
               /\ filteredAlerts[k] = alerts[i]
               /\ Cardinality({j \in Passing : j < i}) = k - 1)

\* C20 witness: a loaded list of three alerts, two critical ones with the
\* newer first and one of an unknown severity last, of which the panel
\* displays the first maxAlerts under the filter All.
C20_Witness ==
  /\ ~alertsLoading
  /\ Len(alerts) = 3
  /\ alerts[1].id = 2
  /\ alerts[2].id = 1
  /\ alerts[3].severity = "debug"
  /\ Len(filteredAlerts) = maxAlerts
  /\ filter = "all"

C21_StillVisible ==
  /\ toastMounted
  /\ toastSeverity = "warning"
  /\ toastAge > ToastDelay
  /\ visible

\* A toast of a critical alert, visible after the user's click on dismiss.
C21_CriticalStays ==
  /\ toastMounted
  /\ toastSeverity = "critical"
  /\ toastAge = MaxToastAge
  /\ visible
  /\ dismissCalls = {"user"}

\* A step of the application that ends in the landing view.
ToLanding == NextApp /\ currentView' = "landing"

\* C22: in every view of App other than the landing view (driver, planner,
\* fleet, upload) some enabled control sets currentView back to 'landing'.
C22_Claimed == currentView # "landing" => ENABLED ToLanding

\* What the code does of C22: the driver, planner and upload views have the
\* logo and the Back button; the fleet view has no control that leaves it.
C22_FleetHasNoWayBack ==
  /\ [](currentView \in ViewsWithHeader => ENABLED ToLanding)
  /\ [](currentView = "fleet" => ~ENABLED ToLanding)
  /\ [][currentView = "fleet" => currentView' = "fleet"]_vars

\* C22 witness: the fleet view, on its Analytics tab after a refresh, in
\* night mode.
C22_Witness ==
  /\ currentView = "fleet"
  /\ activeTab = "analytics"
  /\ ~fleetLoading
  /\ \E tab \in Tabs : mounted[tab] /\ nightMode[tab]


\* The ids of the alerts in the panel's list.
ListedIds == {alerts[i].id : i \in 1..Len(alerts)}

\* C23: once dismissAlert has succeeded for an alert, the alert is not in
\* the panel's list any more and never comes back to it, also when a
\* loadAlerts that was started before the dismissal resolves after it.
C23_Claimed == ListedIds \cap dismissed = {}

\* C23, what holds of a dismissal: the answer of dismissAlert removes the
\* alert from the list when it is a success, and leaves the list as it was
\* when it is a failure.
C23_DismissAnswer ==
  [][ResolveDismiss =>
       \/ /\ dismissCall[1].id \in dismissed'
          /\ dismissCall[1].id \notin {alerts'[i].id : i \in 1..Len(alerts')}
       \/ /\ alerts' = alerts
          /\ dismissed' = dismissed]_vars

\* C23, what holds of a poll: an alert the server has dismissed is never in
\* an answer the server computes afterwards.
C23_LaterAnswersWithout ==
  [][ServeGetAlerts =>
       \A i \in 1..Len(getAlertsCall'[1].data) :
         serverAlerts[getAlertsCall'[1].data[i].id] = "active"]_vars

\* C23: witness: the dismissal of an alert has succeeded, the server holds
\* it as dismissed, no poll is in flight, and the alert is in the list.
C23_Witness ==
  /\ getAlertsCall = <<>>
  /\ dismissCall = <<>>
  /\ \E id \in dismissed :
       /\ serverAlerts[id] = "dismissed"
       /\ id \in ListedIds

\* C24: with a driverId given to the panel, every alerts request in flight
\* has driver_id with that driverId in its query string.
C24_Claimed ==
  (panelDriverId # "" /\ getAlertsCall # <<>>) =>
    \E i \in 1..Len(getAlertsCall[1].request.query) :
      getAlertsCall[1].request.query[i] = <<"driver_id", panelDriverId>>

\* C24, what the code does: no request of the panel has a query string.
C24_NoQueryEver ==
  getAlertsCall # <<>> => getAlertsCall[1].request.query = <<>>

\* C24: witness: the panel of driver-001 has no request in flight and
\* lists an alert of another driver.
C24_Witness ==
  /\ panelDriverId = "driver-001"
  /\ getAlertsCall = <<>>
  /\ \E id \in ListedIds : AlertDriver(id) # panelDriverId

\* A request of handleQuickAction or of handleHOSAction is in flight.
ActionInFlight ==
  pc \in {"driverQuickAction", "quickGetDriverHOS", "logHOSAction",
          "hosGetDriverHOS"}

\* C25: at most one quick-action or HOS-action request is in flight: while
\* actionLoading is not null a handler is at an await and every action
\* button is disabled, no handler starts while one is at an await, and
\* actionLoading is null again when the handler has ended, with or without
\* a failure.
C25_OneActionInFlight ==
  /\ ActionInFlight <=> actionLoading # "null"
  /\ actionLoading # "null" =>
       /\ ButtonDisabled
       /\ \A action \in HosActions : HosButtonDisabled(action)
  /\ ActionInFlight => ~ENABLED (QuickActionClick \/ HOSActionClick)

\* C25: witness: the quick action "arrived" has succeeded and its
\* getDriverHOS is in flight, with every action button disabled.
C25_Witness ==
  /\ pc = "quickGetDriverHOS"
  /\ actionLoading = "arrived"
  /\ message.type = "success"
  /\ ButtonDisabled
  /\ \A action \in HosActions : HosButtonDisabled(action)

\* C25: a handler has ended with a failure and the buttons are enabled again.
C25_EndedWithFailure ==
  /\ pc = "idle"
  /\ thrown # "null"
  /\ message.type = "error"
  /\ actionLoading = "null"
  /\ ~ButtonDisabled

\* The step of handleHOSAction at hand has the action recorded: the answer
\* of logHOSAction that comes with a new log entry, or the answer of
\* getDriverHOS, which is asked for after logHOSAction has succeeded only.
ActionRecorded ==
  \/ pc = "hosGetDriverHOS"
  \/ pc = "logHOSAction" /\ logs' # logs

\* C26: handleHOSAction shows an error message only when the action was
\* not recorded.
C26_Claimed ==
  [][(HOSActionAnswer \/ HOSActionRefresh) =>
       (message'.type = "error" => ~ActionRecorded)]_vars

\* C26, what holds: a success message of handleHOSAction comes with the
\* action recorded and with hosStatus fetched after it.
C26_SuccessAfterRecorded ==
  [][(HOSActionAnswer \/ HOSActionRefresh) =>
       (message'.type = "success" =>
          /\ pc = "hosGetDriverHOS"
          /\ res.op = "recordDutyChange" /\ res.outcome = "ok"
          /\ hosStatus' = <<getDriverHOS(driverId)>>)]_vars

\* C26: witness: handleHOSAction has ended with the error of its
\* getDriverHOS, after a logHOSAction that was recorded, and hosStatus is
\* not the status of after the action.
C26_Witness ==
  /\ pc = "idle"
  /\ thrown = "getDriverHOS"
  /\ message = [type |-> "error", text |-> "Failed to fetch"]
  /\ res.op = "recordDutyChange" /\ res.outcome = "ok"
  /\ hosStatus # <<getDriverHOS(driverId)>>

====
